---- MODULE Spec2Model ----
(***************************************************************************)
(* A model of the fvideo foveated video pipeline: the two-stream encoder   *)
(* (twostreamserver.rs), the dummy encoder (dummyserver.rs), the client's  *)
(* gaze source and compositor (client.rs) and the encoder/display pipeline *)
(* of the user study and the latency binary.                               *)
(*                                                                         *)
(* Each component has its own specification (SpecTS, SpecDummy, SpecGaze,  *)
(* SpecPipe); the variables of the other components keep their initial     *)
(* values while one component runs.                                        *)
(***************************************************************************)
EXTENDS Integers, Sequences, FiniteSets, TLC

VARIABLES
    \* ---- FvideoTwoStreamServer (twostreamserver.rs) ----
    frame_time_elapsed, \* self.frame_time.elapsed(), in ticks of 1/TicksPerMs ms
    frame_dur,          \* self.frame_dur, in ticks
    fovea,              \* self.fovea (fovea_size, in pixels)
    frame_cnt,          \* self.frame_cnt
    last_frame_time,    \* self.last_frame_time, in ticks
    last_gaze_sample,   \* self.last_gaze_sample
    num_frames,         \* frames in the source Y4M file (video_in)
    call,               \* what the last encode_frame call did (observation)
    nals,               \* the EncodedFrames of the last Ok call, until displayed
    \* ---- FvideoClient compositor (client.rs) ----
    bg_frame,           \* self.bg_frame: TRUE once a background frame is decoded
    fg_frame,           \* self.fg_frame: the crop last decoded, or None
    fg_rect,            \* centre of the foreground rectangle last drawn, or None
    client_panicked,    \* display_frame hit unimplemented!()
    \* ---- FvideoDummyServer (dummyserver.rs) ----
    triggered_buff,     \* self.triggered_buff
    triggered,          \* self.triggered
    first_gaze,         \* self.first_gaze
    d_gazes,            \* the gazes passed to encode_frame so far (observation)
    d_call,             \* what the last encode_frame call did (observation)
    \* ---- FvideoClient, the gaze source (client.rs) ----
    now,                \* Instant::now() of the client, in ticks
    gaze_source,        \* self.gaze_source
    gaze_samples,       \* self.gaze_samples
    seqno,              \* self.seqno
    delay,              \* self.delay
    client_triggered,   \* self.triggered
    trig_pc,            \* whether a triggered_gaze_sample() call is in its loop
    delivered,          \* the last return of gaze_sample() (observation)
    trig_ret,           \* the last return of triggered_gaze_sample() (observation)
    \* ---- the encode/display pipeline (user_study.rs, bin/latency.rs) ----
    p_mode,             \* "study": UserStudy::run, State::Video; "latency": main
    port,               \* latency: whether a serial port was opened
    enc_pc,             \* where the encoder thread is
    enc_result,         \* what the encoder thread's closure returned
    enc_cause,          \* why the encoder thread left
    disp_pc,            \* where the thread running the display loop is
    run_result,         \* what run() / main returned
    gaze_ch,            \* gaze_tx -> gaze_rx
    nal_ch,             \* nal_tx -> nal_rx
    cmd_ch,             \* cmd_tx -> cmd_rx
    frames_encoded,     \* encode_frame calls that returned Ok
    keys_handled,       \* keyboard events the display loop has handled
    asg_triggered,      \* latency: the local `triggered`
    \* ---- FvideoTwoStreamServer::crop_x264_pic, byte by byte ----
    crop_gaze,          \* the gaze handed to crop_x264_pic(&mut gaze, ..)
    crop_ret,           \* top, left and the gaze as the crop left them
    fg_pic,             \* self.fg_pic: plane -> row -> column -> byte
    \* ---- UserStudy and the main loop of user_study::run ----
    state,              \* self.state
    delays,             \* self.data.delays
    num_delays,         \* attempts x |delays| of the settings (observation)
    playing,            \* the quality the running video was started with
    csv_rows,           \* the data rows appended to data/user_study.csv
    popped,             \* the delays popped by Accept so far (observation)
    quit_seen,          \* a Quit event was handed to next() (observation)
    study_pc,           \* where the main loop is
    \* ---- the trial loop of the latency binary ----
    count,              \* count: trials still to run
    e2e_printed,        \* latency records printed to stdout
    serial_read,        \* outcome of the last read of the probe's measurement
    lat_pc,             \* where main() is
    \* ---- the tracker session of a process that owns an FvideoClient ----
    proc,               \* the process: "alive" or "ended"
    exit_path,          \* how it ended
    release,            \* the release operations done on the tracker, in order
    \* ---- parse_y4m_header ----
    hdr,                \* the header line, a sequence of characters
    y4m_ret,            \* what parse_y4m_header(&hdr) returned, or that it panicked
    \* ---- compute_alpha ----
    fg_width,           \* the argument of compute_alpha
    alpha_j,            \* the loop variables
    alpha_i,
    alpha_blend         \* the Vec<u8> being built

tsVars == <<frame_time_elapsed, frame_dur, fovea, frame_cnt, last_frame_time,
            last_gaze_sample, num_frames, call, nals>>
dispVars == <<bg_frame, fg_frame, fg_rect, client_panicked>>

dummyVars == <<triggered_buff, triggered, first_gaze, d_gazes, d_call>>

gazeVars == <<now, gaze_source, gaze_samples, seqno, delay, client_triggered,
              trig_pc, delivered, trig_ret>>

pipeVars == <<p_mode, port, enc_pc, enc_result, enc_cause, disp_pc, run_result,
              gaze_ch, nal_ch, cmd_ch, frames_encoded, keys_handled, asg_triggered>>

cropVars == <<crop_gaze, crop_ret, fg_pic>>

studyVars == <<state, delays, num_delays, playing, csv_rows, popped, quit_seen,
               study_pc>>

latVars == <<count, e2e_printed, serial_read, lat_pc>>

sessVars == <<proc, exit_path, release>>
y4mVars == <<hdr, y4m_ret>>
alphaVars == <<fg_width, alpha_j, alpha_i, alpha_blend>>

vars == <<tsVars, dispVars, dummyVars, gazeVars, pipeVars, cropVars, studyVars,
          latVars, sessVars, y4mVars, alphaVars>>

\* What the actions of one component leave alone.
notTwoStream == <<dummyVars, gazeVars, pipeVars, cropVars, studyVars, latVars, sessVars, y4mVars, alphaVars>>
notDummy == <<tsVars, dispVars, gazeVars, pipeVars, cropVars, studyVars, latVars, sessVars, y4mVars, alphaVars>>
notGaze == <<tsVars, dispVars, dummyVars, pipeVars, cropVars, studyVars, latVars, sessVars, y4mVars, alphaVars>>
notPipe == <<tsVars, dispVars, dummyVars, gazeVars, cropVars, studyVars, latVars, sessVars, y4mVars, alphaVars>>
notCrop == <<tsVars, dispVars, dummyVars, gazeVars, pipeVars, studyVars, latVars, sessVars, y4mVars, alphaVars>>
notStudy == <<tsVars, dispVars, dummyVars, gazeVars, cropVars, latVars, sessVars, y4mVars, alphaVars>>
notLat == <<tsVars, dispVars, dummyVars, gazeVars, cropVars, studyVars, sessVars, y4mVars, alphaVars>>
notSess == <<tsVars, dispVars, dummyVars, gazeVars, cropVars, studyVars, y4mVars, alphaVars>>
notY4m == <<tsVars, dispVars, dummyVars, gazeVars, pipeVars, cropVars, studyVars,
            latVars, sessVars, alphaVars>>
notAlpha == <<tsVars, dispVars, dummyVars, gazeVars, pipeVars, cropVars, studyVars,
              latVars, sessVars, y4mVars>>

\* Option::None (a record, so that it compares with the records it stands in for).
None == [none |-> TRUE]

Abs(n) == IF n < 0 THEN -n ELSE n

\* Rust's % on i32: the remainder has the sign of the dividend.
RustRem(n, m) == IF n >= 0 THEN n % m ELSE -((-n) % m)

\* ceil(a / b) for a >= 0, b > 0.
CeilDiv(a, b) == (a + b - 1) \div b

(***************************************************************************)
(* Bounds of the model and program constants.                              *)
(***************************************************************************)
\* Resolution of the model's clock: ticks per millisecond.
TicksPerMs == 2
\* The pacing run (SpecPace) is observed for this many ticks.
MaxTime == 16
\* Frames in the source file of the pacing run; the read after the last one
\* hits EOF.
NumFrames == 6
\* The encode run (SpecEnc) is observed for this many ticks, on a source of
\* this many frames.
MaxTimeEnc == 6
NumFramesEnc == 2
\* The same for the encode-and-display run (SpecTS).
MaxTimeTS == 6
NumFramesTS == 2
\* Height of the source video, in pixels.
SrcHeight == 22

\* twostreamserver.rs:52
DIFF_THRESH == 10

\* frame_dur = 1/fps: 3 ticks is 1.5 ms (as_millis() truncates it to 1),
\* 4 ticks is exactly 2 ms.
FrameDurs == {3, 4}

\* The fovea argument of new(), in macroblocks.
FoveaArgs == {1, 2}

\* Gaze positions (video pixels) handed to encode_frame.
GazeXs == {0, DIFF_THRESH, DIFF_THRESH + 1}
GazeYs == {0, DIFF_THRESH + 1}
Gazes == [p_x : GazeXs, p_y : GazeYs]

(***************************************************************************)
(* FvideoTwoStreamServer                                                   *)
(***************************************************************************)
\* new(): fovea_size = match fovea { n if n*16 > height => height, n => n*16 }
FoveaSize(n, height) == IF n * 16 > height THEN height ELSE n * 16

\* read_frame(): the pacing condition under which the source frame advances.
PacingMet(elapsed) ==
    \/ frame_cnt = 0
    \/ elapsed - last_frame_time >= frame_dur
    \/ (elapsed \div TicksPerMs) \div (frame_dur \div TicksPerMs) > frame_cnt

\* encode_frame(): gaze_changed.
GazeChanged(last, gaze) ==
    \/ Abs(last.p_x - gaze.p_x) > DIFF_THRESH
    \/ Abs(last.p_y - gaze.p_y) > DIFF_THRESH

\* crop_x264_pic(): top (or left) of the crop for gaze coordinate p.
CropOrigin(p, size) ==
    LET n == p - size \div 2
    IN  IF RustRem(n, 2) = 0 THEN n ELSE n + 1

\* crop_x264_pic(): the gaze coordinate as the crop leaves it (gaze.p += 1
\* on the axis where p - size/2 is odd).
CropGazeCoord(p, size) ==
    LET n == p - size \div 2
    IN  IF RustRem(n, 2) = 0 THEN p ELSE p + 1

\* Mutant: the crop does not write the parity adjustment back to the gaze.
CropGazeNoWriteBack(gaze) == gaze

\* crop_x264_pic(&mut gaze, fovea, fovea): the adjusted gaze.
CropGaze(gaze) ==
    [p_x |-> CropGazeCoord(gaze.p_x, fovea), p_y |-> CropGazeCoord(gaze.p_y, fovea)]

\* The rectangle copied into fg_pic.
CropRect(gaze) ==
    [top |-> CropOrigin(gaze.p_y, fovea), left |-> CropOrigin(gaze.p_x, fovea),
     size |-> fovea]

\* Mutant: the background is also encoded when only the gaze moved.
EncodeBgOnGaze(advanced, gaze_changed) == advanced \/ gaze_changed

\* encode_frame(): the condition under which the background is encoded.
EncodeBg(advanced, gaze_changed) == advanced

\* Mutant: the foreground is encoded only when the frame advanced.
EncodeFgOnAdvance(advanced, gaze_changed) == advanced

\* encode_frame(): the condition under which the foreground is cropped and
\* encoded.
EncodeFg(advanced, gaze_changed) == advanced \/ gaze_changed

NoCall == [ret |-> "none"]
NoFrames == [no_frames |-> TRUE]

\* new(): the state of a server constructed on a source of `frames` frames.
NewServer(durs, foveas, frames) ==
    /\ frame_time_elapsed = 0
    /\ frame_dur \in durs
    /\ fovea \in {FoveaSize(n, SrcHeight) : n \in foveas}
    /\ frame_cnt = 0
    /\ last_frame_time = 0
    /\ last_gaze_sample = [p_x |-> 0, p_y |-> 0]
    /\ num_frames = frames
    /\ call = NoCall
    /\ nals = NoFrames

InitDisp ==
    /\ bg_frame = FALSE
    /\ fg_frame = None
    /\ fg_rect = None
    /\ client_panicked = FALSE

\* Wall-clock time passes.
Tick(horizon) ==
    /\ frame_time_elapsed < horizon
    /\ frame_time_elapsed' = frame_time_elapsed + 1
    /\ UNCHANGED <<frame_dur, fovea, frame_cnt, last_frame_time, last_gaze_sample,
                   num_frames, call, nals>>
    /\ UNCHANGED <<dispVars, notTwoStream>>

\* encode_frame(gaze_in) whose read_frame() fails: the pacing condition is met,
\* read_line() returns Ok(0) at EOF, frame_cnt is incremented and read_exact()
\* fails; the error is returned by `?` before gaze_changed is computed.
EncodeFrameEof(gaze_in) ==
    /\ PacingMet(frame_time_elapsed)
    /\ frame_cnt >= num_frames
    /\ last_frame_time' = frame_time_elapsed
    /\ frame_cnt' = frame_cnt + 1
    /\ call' = [ret |-> "err", gaze_in |-> gaze_in, last |-> last_gaze_sample,
                fg_encoded |-> FALSE, bg_encoded |-> FALSE]
    /\ UNCHANGED <<frame_time_elapsed, frame_dur, fovea, last_gaze_sample,
                   num_frames, nals>>
    /\ UNCHANGED <<dispVars, notTwoStream>>

\* encode_frame(gaze_in) returning Ok. fg_out / bg_out: whether the x264
\* encoder hands back a NAL for the picture it was given.
EncodeFrameOk(gaze_in, fg_out, bg_out) ==
    LET gaze == IF gaze_in = None THEN last_gaze_sample ELSE gaze_in
        advanced == PacingMet(frame_time_elapsed)
        gaze_changed == GazeChanged(last_gaze_sample, gaze)
        do_bg == EncodeBg(advanced, gaze_changed)
        do_fg == EncodeFg(advanced, gaze_changed)
        bg_nal == IF do_bg /\ bg_out THEN [frame |-> frame_cnt'] ELSE None
        fg_nal == IF do_fg /\ fg_out
                  THEN [nal |-> CropRect(gaze), gaze |-> CropGaze(gaze)]
                  ELSE None
    IN  /\ ~(advanced /\ frame_cnt >= num_frames)
        /\ IF advanced
           THEN /\ last_frame_time' = frame_time_elapsed
                /\ frame_cnt' = frame_cnt + 1
           ELSE UNCHANGED <<last_frame_time, frame_cnt>>
        /\ last_gaze_sample' = IF gaze_changed THEN gaze ELSE last_gaze_sample
        /\ nals' = [fg |-> fg_nal, bg |-> bg_nal]
        /\ call' = [ret |-> "ok", gaze_in |-> gaze_in, last |-> last_gaze_sample,
                    advanced |-> advanced,
                    fg_encoded |-> do_fg, bg_encoded |-> do_bg]
        /\ UNCHANGED <<frame_time_elapsed, frame_dur, fovea, num_frames>>
        /\ UNCHANGED <<dispVars, notTwoStream>>

EncodeFrame(inputs) ==
    \E gaze_in \in inputs :
        \/ EncodeFrameEof(gaze_in)
        \/ \E fg_out \in BOOLEAN, bg_out \in BOOLEAN :
               EncodeFrameOk(gaze_in, fg_out, bg_out)

(***************************************************************************)
(* FvideoClient::display_twostream_frame                                   *)
(***************************************************************************)
\* Outcomes of decoder.decode(): Ok(true), Ok(false), Err(_); for the
\* background also the filter sink failing after a successful decode.
BgDecodes == {"frame", "none", "error", "filter_error"}
FgDecodes == {"frame", "none", "error"}

\* display_twostream_frame(): the centre (c_x, c_y) of the foreground
\* rectangle; bg_rect is Rect::new(0, 0, ..), so bg_rect.x() = bg_rect.y() = 0.
FgCentre(fg) ==
    IF fg # None THEN [c_x |-> fg.gaze.p_x + 0, c_y |-> fg.gaze.p_y + 0]
    ELSE [c_x |-> 0, c_y |-> 0]

\* display_frame(fg_nal, bg_nal) in two-stream mode.
DisplayFrame(bg_dec, fg_dec) ==
    LET fg == nals.fg
        bg == nals.bg
        bg_panics == bg # None /\ bg_dec \in {"none", "filter_error"}
        fg_panics == fg # None /\ fg_dec = "none"
    IN  /\ nals # NoFrames
        /\ ~client_panicked
        /\ nals' = NoFrames
        /\ IF fg = None /\ bg = None
           THEN UNCHANGED <<bg_frame, fg_frame, fg_rect, client_panicked>>
           ELSE /\ bg_frame' = IF bg # None /\ bg_dec = "frame" THEN TRUE ELSE bg_frame
                /\ fg_frame' = IF ~bg_panics /\ fg # None /\ fg_dec = "frame"
                               THEN fg.nal ELSE fg_frame
                /\ client_panicked' = (bg_panics \/ fg_panics)
                /\ fg_rect' = IF bg_panics \/ fg_panics THEN fg_rect
                              ELSE FgCentre(fg)
        /\ UNCHANGED <<frame_time_elapsed, frame_dur, fovea, frame_cnt,
                       last_frame_time, last_gaze_sample, num_frames, call>>
        /\ UNCHANGED notTwoStream

Display ==
    \E bg_dec \in BgDecodes, fg_dec \in FgDecodes :
        DisplayFrame(bg_dec, fg_dec)

(***************************************************************************)
(* FvideoDummyServer                                                       *)
(***************************************************************************)
\* dummyserver.rs:20
DUMMY_DIFF_THRESH == 50
\* dummyserver.rs:21
LINGER_FRAMES == 1

\* encode_frame is called at most this many times.
MaxDummyCalls == 4

\* Gaze positions handed to the dummy encoder.
DummyXs == {0, DUMMY_DIFF_THRESH, DUMMY_DIFF_THRESH + 1, 200}
DummyYs == {0, 200}
DummyGazes == [p_x : DummyXs, p_y : DummyYs]

\* new()
NewDummy ==
    /\ triggered_buff = 0
    /\ triggered = FALSE
    /\ first_gaze = None
    /\ d_gazes = <<>>
    /\ d_call = NoCall

\* Mutant: the linger test is off by one.
DummyFinishedOffByOne(buff) == buff > LINGER_FRAMES

\* encode_frame(): `self.triggered_buff >= LINGER_FRAMES`, the terminal error.
DummyFinished(buff) == buff >= LINGER_FRAMES

\* Mutant: the gaze must exceed the threshold on both axes.
DummyExceedsBothAxes(gaze, first) ==
    /\ Abs(gaze.p_x - first.p_x) > DUMMY_DIFF_THRESH
    /\ Abs(gaze.p_y - first.p_y) > DUMMY_DIFF_THRESH

\* encode_frame(): the gaze differs from first_gaze by more than DIFF_THRESH
\* on either axis.
DummyExceeds(gaze, first) ==
    \/ Abs(gaze.p_x - first.p_x) > DUMMY_DIFF_THRESH
    \/ Abs(gaze.p_y - first.p_y) > DUMMY_DIFF_THRESH

\* FvideoDummyServer::encode_frame(gaze). The encoder is tuned zerolatency
\* (lib.rs:167) and a delayed frame runs into todo!(), so a call that returns
\* Ok carries the NAL of the picture it encoded.
DummyEncodeFrame(gaze) ==
    /\ Len(d_gazes) < MaxDummyCalls
    /\ d_gazes' = Append(d_gazes, gaze)
    /\ IF DummyFinished(triggered_buff)
       THEN /\ d_call' = [ret |-> "err"]
            /\ UNCHANGED <<triggered_buff, triggered, first_gaze>>
       ELSE LET first == IF first_gaze = None THEN gaze ELSE first_gaze
                trig == triggered \/ DummyExceeds(gaze, first)
                pic == IF trig THEN "white" ELSE "black"
            IN  /\ first_gaze' = first
                /\ triggered' = trig
                /\ triggered_buff' = IF trig THEN triggered_buff + 1
                                     ELSE triggered_buff
                /\ d_call' = [ret |-> "ok", pic |-> pic,
                              fg |-> None, bg |-> [pic |-> pic]]
    /\ UNCHANGED notDummy

\* FvideoDummyServer::reset_trigger()
ResetTrigger ==
    /\ triggered' = FALSE
    /\ triggered_buff' = 0
    /\ UNCHANGED <<first_gaze, d_gazes, d_call>>
    /\ UNCHANGED notDummy

DummyEncode == \E gaze \in DummyGazes : DummyEncodeFrame(gaze)

(***************************************************************************)
(* FvideoClient: gaze_sample() and triggered_gaze_sample()                 *)
(***************************************************************************)
\* libeyelink_sys::MISSING_DATA, imported at client.rs:29
MISSING_DATA == -32768

\* The display, the source video (the clip rect of the canvas) and the
\* background stream, in pixels.
DispWidth == 8
DispHeight == 6
ClipWidth == 4
ClipHeight == 4
BgWidth == 4
BgHeight == 4

\* The client clock runs up to MaxNow ticks and gaze_sample() /
\* triggered_gaze_sample() hand out at most MaxSeq sequence numbers.
MaxNow == 3
MaxSeq == 3

\* display_options.delay, in ticks (0: no artificial delay).
DelayArgs == {0, 2}

\* The thresh argument of triggered_gaze_sample().
TrigThresh == 1

\* Display positions reported by the mouse or the tracker.
DispXs == {0, DispWidth - 1}
DispYs == {0, DispHeight \div 2}

\* The side of a macroblock.
MbSize == 16

\* eyelink_newest_float_sample(): Err, or a sample of the eye in use.
EyelinkSamples ==
    {[ok |-> FALSE]} \cup
    [ok : {TRUE}, gx : DispXs \cup {MISSING_DATA},
     gy : DispYs \cup {MISSING_DATA}, pa : {0, 1}]

\* event_pump.poll_iter().last() and event_pump.mouse_state()
MouseStates == [pending : BOOLEAN, x : DispXs, y : DispYs]

\* "Make sure pupil is present"
PupilPresent(evt) ==
    evt.ok /\ evt.gx # MISSING_DATA /\ evt.gy # MISSING_DATA /\ evt.pa > 0

Min(a, b) == IF a < b THEN a ELSE b
Max(a, b) == IF a > b THEN a ELSE b

\* to_video_coords() on one axis: the clip rect is centred on the display
\* (Rect::from_center) and has the size of the source video.
ToVideoCoord(d, disp, src) ==
    LET clip == disp \div 2 - src \div 2
    IN  Max(Min(d - clip, src), 0)

\* triggered_gaze_sample(): (d * bg / disp).round(), on one axis.
ScaleRound(d, bg, disp) == (2 * d * bg + disp) \div (2 * disp)

\* triggered_gaze_sample(): (p / 16.0).round() of the unrounded
\* p = d * bg / disp, on one axis.
ScaleRoundMb(d, bg, disp) == ScaleRound(d, bg, disp * MbSize)

\* new(): the queue starts with one sample at the centre of the source.
NewClient(sources, delay_args) ==
    /\ now = 0
    /\ gaze_source \in sources
    /\ gaze_samples = << [time |-> 0, seqno |-> 0,
                          p_x |-> ClipWidth \div 2, p_y |-> ClipHeight \div 2,
                          m_x |-> (ClipWidth \div 2) \div MbSize,
                          m_y |-> (ClipHeight \div 2) \div MbSize] >>
    /\ seqno = 0
    /\ delay \in {IF d > 0 THEN [some |-> d] ELSE None : d \in delay_args}
    /\ client_triggered = FALSE
    /\ trig_pc = "idle"
    /\ delivered = None
    /\ trig_ret = None

\* The client clock advances.
ClientTick ==
    /\ now < MaxNow
    /\ now' = now + 1
    /\ UNCHANGED <<gaze_source, gaze_samples, seqno, delay, client_triggered,
                   trig_pc, delivered, trig_ret>>
    /\ UNCHANGED notGaze

\* gaze_sample(): the queue after the conditional pop_front().
AfterRelease(queue, d, t) ==
    IF d = None THEN Tail(queue)
    ELSE IF t - Head(queue).time >= d.some THEN Tail(queue)
    ELSE queue

\* gaze_sample(), with what the mouse and the tracker report at the call.
GazeSample(mouse, evt) ==
    LET back == gaze_samples[Len(gaze_samples)]
        fresh(d_x, d_y) ==
            LET p_x == ToVideoCoord(d_x, DispWidth, ClipWidth)
                p_y == ToVideoCoord(d_y, DispHeight, ClipHeight)
            IN  [time |-> now, seqno |-> seqno, p_x |-> p_x, p_y |-> p_y,
                 m_x |-> p_x \div MbSize, m_y |-> p_y \div MbSize]
        read == IF gaze_source = "Mouse"
                THEN IF mouse.pending THEN fresh(mouse.x, mouse.y) ELSE back
                ELSE IF PupilPresent(evt) THEN fresh(evt.gx, evt.gy) ELSE back
        gaze == [read EXCEPT !.time = now, !.seqno = seqno]
        queue == AfterRelease(Append(gaze_samples, gaze), delay, now)
    IN  /\ trig_pc = "idle"
        /\ seqno < MaxSeq
        /\ seqno' = seqno + 1
        /\ gaze_samples' = queue
        /\ delivered' = [sample |-> Head(queue), at |-> now]
        /\ UNCHANGED <<now, gaze_source, delay, client_triggered, trig_pc, trig_ret>>
        /\ UNCHANGED notGaze

\* triggered_gaze_sample(thresh) is called. Only a client built for the
\* Eyelink has an eye to read.
TrigCall ==
    /\ trig_pc = "idle"
    /\ gaze_source = "Eyelink"
    /\ seqno < MaxSeq
    /\ trig_pc' = "polling"
    /\ trig_ret' = None
    /\ UNCHANGED <<now, gaze_source, gaze_samples, seqno, delay, client_triggered,
                   delivered>>
    /\ UNCHANGED notGaze

\* Mutant: the threshold is measured against the newest sample of the queue.
TrigReferenceBack(queue) == queue[Len(queue)]

\* triggered_gaze_sample(): curr_gaze_sample, the front of the queue.
TrigReference(queue) == Head(queue)

\* triggered_gaze_sample(): the threshold test.
TrigExceeds(gaze, curr, thresh) ==
    \/ Abs(gaze.p_x - curr.p_x) > thresh
    \/ Abs(gaze.p_y - curr.p_y) > thresh

\* One iteration of the loop of triggered_gaze_sample(thresh).
TrigPoll(evt, thresh) ==
    LET gaze == [time |-> now, seqno |-> seqno,
                 p_x |-> ScaleRound(evt.gx, BgWidth, DispWidth),
                 p_y |-> ScaleRound(evt.gy, BgHeight, DispHeight),
                 m_x |-> ScaleRoundMb(evt.gx, BgWidth, DispWidth),
                 m_y |-> ScaleRoundMb(evt.gy, BgHeight, DispHeight)]
        curr_gaze_sample == TrigReference(gaze_samples)
    IN  /\ trig_pc = "polling"
        /\ IF ~PupilPresent(evt)
           THEN UNCHANGED <<gaze_samples, client_triggered, seqno, trig_pc, trig_ret>>
           ELSE /\ gaze_samples' = Tail(Append(gaze_samples, gaze))
                /\ IF TrigExceeds(gaze, curr_gaze_sample, thresh)
                   THEN /\ client_triggered' = TRUE
                        /\ seqno' = seqno + 1
                        /\ trig_pc' = "idle"
                        /\ trig_ret' = [sample |-> curr_gaze_sample]
                   ELSE UNCHANGED <<client_triggered, seqno, trig_pc, trig_ret>>
        /\ UNCHANGED <<now, gaze_source, delay, delivered>>
        /\ UNCHANGED notGaze

(***************************************************************************)
(* The encode/display pipeline: UserStudy::run in State::Video and the     *)
(* trial loop of the latency binary                                        *)
(***************************************************************************)
\* flume::bounded(16), flume::bounded(16), flume::bounded(5)
NalCap == 16
GazeCap == 16
CmdCap == 5

\* The video ends after this many frames; the display loop handles at most
\* this many keyboard events.
MaxPipeFrames == 3
MaxKeys == 2

\* Keycodes: one that the display loop ignores, one of Escape / P / C / B /
\* 0-9 (next() then Stop), and Return (CSV row, next(), Stop).
Keys == {"none", "other", "stop", "return"}

NewPipeline(modes, ports) ==
    /\ p_mode \in modes
    /\ port \in ports
    /\ enc_pc = IF p_mode = "study" THEN "wait_start" ELSE "unspawned"
    /\ enc_result = "running"
    /\ enc_cause = "running"
    /\ disp_pc = IF p_mode = "study" THEN "prime" ELSE "first_gaze"
    /\ run_result = "running"
    /\ gaze_ch = <<>>
    /\ nal_ch = <<>>
    /\ cmd_ch = <<>>
    /\ frames_encoded = 0
    /\ keys_handled = 0
    /\ asg_triggered = FALSE

\* The encoder thread's closure returned: gaze_rx, nal_tx and cmd_rx drop.
EncoderGone == enc_pc = "exited"

\* run() / main returned: gaze_tx, nal_rx and cmd_tx drop.
DisplayGone == disp_pc = "returned"

\* A send blocks while a bounded channel is full; the mpsc channels of the
\* latency binary are unbounded.
HasRoom(ch, cap) == p_mode = "latency" \/ Len(ch) < cap

EncExit(result, cause) ==
    /\ enc_pc' = "exited"
    /\ enc_result' = result
    /\ enc_cause' = cause

\* user_study.rs: `if let Ok(ServerCmd::Start) = cmd_rx.recv()` and
\* FvideoTwoStreamServer::new(..)?
EncWaitStart ==
    /\ enc_pc = "wait_start"
    /\ \/ /\ cmd_ch # <<>>
          /\ cmd_ch' = Tail(cmd_ch)
          /\ IF Head(cmd_ch) = "Start"
             THEN \E new_ok \in BOOLEAN :
                     IF new_ok
                     THEN enc_pc' = "recv_gaze" /\ UNCHANGED <<enc_result, enc_cause>>
                     ELSE EncExit("err", "new")
             ELSE EncExit("ok", "no_start")
       \/ /\ cmd_ch = <<>> /\ DisplayGone
          /\ EncExit("ok", "no_start")
          /\ UNCHANGED cmd_ch
    /\ UNCHANGED <<p_mode, port, disp_pc, run_result, gaze_ch, nal_ch,
                   frames_encoded, keys_handled, asg_triggered>>
    /\ UNCHANGED notPipe

\* latency.rs: thread::spawn and Fvideo..Server::new(..)?
EncSpawn ==
    /\ enc_pc = "unspawned"
    /\ disp_pc # "first_gaze"
    /\ \E new_ok \in BOOLEAN :
          IF new_ok
          THEN enc_pc' = "recv_gaze" /\ UNCHANGED <<enc_result, enc_cause>>
          ELSE EncExit("err", "new")
    /\ UNCHANGED <<p_mode, port, disp_pc, run_result, gaze_ch, nal_ch, cmd_ch,
                   frames_encoded, keys_handled, asg_triggered>>
    /\ UNCHANGED notPipe

\* `for current_gaze in gaze_rx` and server.encode_frame(current_gaze):
\* Err(_) => break. The source runs out after MaxPipeFrames frames.
EncRecvGaze ==
    /\ enc_pc = "recv_gaze"
    /\ \/ /\ gaze_ch # <<>>
          /\ gaze_ch' = Tail(gaze_ch)
          /\ \E encode_ok \in BOOLEAN :
                IF encode_ok /\ frames_encoded < MaxPipeFrames
                THEN /\ enc_pc' = "send_nal"
                     /\ frames_encoded' = frames_encoded + 1
                     /\ UNCHANGED <<enc_result, enc_cause>>
                ELSE /\ EncExit("ok", "encode_err")
                     /\ UNCHANGED frames_encoded
       \/ /\ gaze_ch = <<>> /\ DisplayGone
          /\ EncExit("ok", "gaze_closed")
          /\ UNCHANGED <<gaze_ch, frames_encoded>>
    /\ UNCHANGED <<p_mode, port, disp_pc, run_result, nal_ch, cmd_ch,
                   keys_handled, asg_triggered>>
    /\ UNCHANGED notPipe

\* nal_tx.send(nals)?
EncSendNal ==
    /\ enc_pc = "send_nal"
    /\ IF DisplayGone
       THEN EncExit("err", "nal_closed") /\ UNCHANGED nal_ch
       ELSE /\ HasRoom(nal_ch, NalCap)
            /\ nal_ch' = Append(nal_ch, frames_encoded)
            /\ enc_pc' = IF p_mode = "study" THEN "check_cmd" ELSE "recv_gaze"
            /\ UNCHANGED <<enc_result, enc_cause>>
    /\ UNCHANGED <<p_mode, port, disp_pc, run_result, gaze_ch, cmd_ch,
                   frames_encoded, keys_handled, asg_triggered>>
    /\ UNCHANGED notPipe

\* user_study.rs: `if let Ok(ServerCmd::Stop) = cmd_rx.try_recv() { break }`
EncCheckCmd ==
    /\ enc_pc = "check_cmd"
    /\ IF cmd_ch # <<>>
       THEN /\ cmd_ch' = Tail(cmd_ch)
            /\ IF Head(cmd_ch) = "Stop"
               THEN EncExit("ok", "stop")
               ELSE enc_pc' = "recv_gaze" /\ UNCHANGED <<enc_result, enc_cause>>
       ELSE /\ enc_pc' = "recv_gaze"
            /\ UNCHANGED <<cmd_ch, enc_result, enc_cause>>
    /\ UNCHANGED <<p_mode, port, disp_pc, run_result, gaze_ch, nal_ch,
                   frames_encoded, keys_handled, asg_triggered>>
    /\ UNCHANGED notPipe

\* `?` on a failed operation: run() / main returns Err and its channel ends drop.
DispReturnErr ==
    /\ disp_pc' = "returned"
    /\ run_result' = "err"

\* Mutant: both priming samples are sent.
DispPrimeTwice ==
    /\ disp_pc \in {"prime", "first_gaze"}
    /\ IF EncoderGone
       THEN DispReturnErr /\ UNCHANGED gaze_ch
       ELSE /\ HasRoom(gaze_ch, GazeCap)
            /\ gaze_ch' = Append(Append(gaze_ch, "gaze"), "gaze")
            /\ disp_pc' = IF p_mode = "study" THEN "start" ELSE "recv_nal"
            /\ UNCHANGED run_result
    /\ UNCHANGED <<p_mode, port, enc_pc, enc_result, enc_cause, nal_ch, cmd_ch,
                   frames_encoded, keys_handled, asg_triggered>>
    /\ UNCHANGED notPipe

\* user_study.rs: client.gaze_sample(); gaze_tx.send(client.gaze_sample())?
\* latency.rs: gaze_tx.send(client.gaze_sample())?, before the thread is spawned.
DispPrime ==
    /\ disp_pc \in {"prime", "first_gaze"}
    /\ IF EncoderGone
       THEN DispReturnErr /\ UNCHANGED gaze_ch
       ELSE /\ HasRoom(gaze_ch, GazeCap)
            /\ gaze_ch' = Append(gaze_ch, "gaze")
            /\ disp_pc' = IF p_mode = "study" THEN "start" ELSE "recv_nal"
            /\ UNCHANGED run_result
    /\ UNCHANGED <<p_mode, port, enc_pc, enc_result, enc_cause, nal_ch, cmd_ch,
                   frames_encoded, keys_handled, asg_triggered>>
    /\ UNCHANGED notPipe

\* user_study.rs: cmd_tx.send(ServerCmd::Start)?
DispStart ==
    /\ disp_pc = "start"
    /\ IF EncoderGone
       THEN DispReturnErr /\ UNCHANGED cmd_ch
       ELSE /\ HasRoom(cmd_ch, CmdCap)
            /\ cmd_ch' = Append(cmd_ch, "Start")
            /\ disp_pc' = "recv_nal"
            /\ UNCHANGED run_result
    /\ UNCHANGED <<p_mode, port, enc_pc, enc_result, enc_cause, gaze_ch, nal_ch,
                   frames_encoded, keys_handled, asg_triggered>>
    /\ UNCHANGED notPipe

\* `for nal in nal_rx`: the next tuple, or the end of the loop once the
\* channel is empty and nal_tx has dropped.
DispRecvNal ==
    /\ disp_pc = "recv_nal"
    /\ \/ /\ nal_ch # <<>>
          /\ nal_ch' = Tail(nal_ch)
          /\ disp_pc' = "gaze"
       \/ /\ nal_ch = <<>> /\ EncoderGone
          /\ disp_pc' = "join"
          /\ UNCHANGED nal_ch
    /\ UNCHANGED <<p_mode, port, enc_pc, enc_result, enc_cause, run_result,
                   gaze_ch, cmd_ch, frames_encoded, keys_handled, asg_triggered>>
    /\ UNCHANGED notPipe

\* Where the display loop goes when gaze_tx.send fails: user_study.rs
\* `if gaze_tx.send(..).is_err() { break }`, latency.rs `gaze_tx.send(gaze)?`.
GazeSendFailed(mode) == IF mode = "study" THEN "join" ELSE "returned"

\* gaze_tx.send(gaze)
SendGaze ==
    IF EncoderGone
    THEN /\ disp_pc' = GazeSendFailed(p_mode)
         /\ run_result' = IF disp_pc' = "returned" THEN "err" ELSE run_result
         /\ UNCHANGED gaze_ch
    ELSE /\ HasRoom(gaze_ch, GazeCap)
         /\ gaze_ch' = Append(gaze_ch, "gaze")
         /\ disp_pc' = "display"
         /\ UNCHANGED run_result

\* The head of the loop body: client.gaze_sample() and the send of it; in the
\* latency binary with a port, once, the trigger of the ASG first
\* (p.write_all(GO_CMD)?, then triggered_gaze_sample()).
DispGaze ==
    /\ disp_pc = "gaze"
    /\ \/ SendGaze /\ UNCHANGED asg_triggered
       \/ /\ p_mode = "latency" /\ port /\ ~asg_triggered
          /\ \E write_ok \in BOOLEAN :
                IF write_ok
                THEN /\ asg_triggered' = TRUE
                     /\ disp_pc' = "trig_wait"
                     /\ UNCHANGED run_result
                ELSE DispReturnErr /\ UNCHANGED asg_triggered
          /\ UNCHANGED gaze_ch
    /\ UNCHANGED <<p_mode, port, enc_pc, enc_result, enc_cause, nal_ch, cmd_ch,
                   frames_encoded, keys_handled>>
    /\ UNCHANGED notPipe

\* latency.rs: client.triggered_gaze_sample(DIFF_THRESH) returns, and the
\* sample it returned is sent.
DispTrigReturn ==
    /\ disp_pc = "trig_wait"
    /\ SendGaze
    /\ UNCHANGED <<p_mode, port, enc_pc, enc_result, enc_cause, nal_ch, cmd_ch,
                   frames_encoded, keys_handled, asg_triggered>>
    /\ UNCHANGED notPipe

\* client.display_frame(..), then in the user study client.keyboard_event()
\* and the match on the key: Return writes the CSV row (writeln!(..)?), every
\* handled key goes through self.next(..) and cmd_tx.send(ServerCmd::Stop)?.
DispDisplayLoop(key, log_ok) ==
    /\ disp_pc = "display"
    /\ key # "none" => p_mode = "study" /\ keys_handled < MaxKeys
    /\ keys_handled' = IF key # "none" THEN keys_handled + 1 ELSE keys_handled
    /\ IF key \in {"none", "other"}
       THEN disp_pc' = "recv_nal" /\ UNCHANGED <<run_result, cmd_ch>>
       ELSE IF (key = "return" /\ ~log_ok) \/ EncoderGone
       THEN DispReturnErr /\ UNCHANGED cmd_ch
       ELSE /\ HasRoom(cmd_ch, CmdCap)
            /\ cmd_ch' = Append(cmd_ch, "Stop")
            /\ disp_pc' = "recv_nal"
            /\ UNCHANGED run_result
    /\ UNCHANGED <<p_mode, port, enc_pc, enc_result, enc_cause, gaze_ch, nal_ch,
                   frames_encoded, asg_triggered>>

DispDisplay(key, log_ok) == DispDisplayLoop(key, log_ok) /\ UNCHANGED notPipe

\* server.join().unwrap()? / t_enc.join().unwrap()?
DispJoin ==
    /\ disp_pc = "join"
    /\ EncoderGone
    /\ disp_pc' = "joined"
    /\ run_result' = enc_result
    /\ UNCHANGED <<p_mode, port, enc_pc, enc_result, enc_cause, gaze_ch, nal_ch,
                   cmd_ch, frames_encoded, keys_handled, asg_triggered>>
    /\ UNCHANGED notPipe

(***************************************************************************)
(* FvideoTwoStreamServer::crop_x264_pic, the copy into fg_pic              *)
(***************************************************************************)
\* The width of the source video (SrcHeight is its height).
SrcWidth == 24

\* Integer division of Rust: the quotient is truncated towards zero.
RustDiv(n, m) == IF n >= 0 THEN n \div m ELSE -((-n) \div m)

\* csp_height[i] = csp_width[i]: the subsampling of plane i (I420).
Csp(i) == IF i = 0 THEN 1 ELSE 2

\* orig_pic.pic.img.i_stride[i] and fg_pic.pic.img.i_stride[i]: the planes
\* are allocated for a width of SrcWidth and of the fovea.
OrigStride(i) == SrcWidth \div Csp(i)
FgStride(size, i) == size \div Csp(i)

\* x264-rs Picture::from_param: plane_size[i], with scale.w = scale.h =
\* 256, 128, 128 and one byte per sample.
PlaneSize(i) ==
    LET scale == 256 \div Csp(i)
    IN  (((SrcWidth * scale) \div 256) * SrcHeight * scale) \div 256

\* A byte of fg_pic nothing was copied to, and a byte read from outside the
\* plane (whatever lies in memory before or after it).
Sentinel == [sentinel |-> TRUE]
OutsidePlane == [outside |-> TRUE]

\* The byte at `offset` bytes from the start of plane i, named by its place.
SrcByte(i, offset) ==
    IF offset >= 0 /\ offset < PlaneSize(i)
    THEN [row |-> offset \div OrigStride(i), col |-> offset % OrigStride(i)]
    ELSE OutsidePlane

\* fg_pic before the crop, pre-filled.
BlankPic(size) ==
    [i \in 0..2 |-> [r \in 0..(FgStride(size, i) - 1) |->
        [c \in 0..(FgStride(size, i) - 1) |-> Sentinel]]]

\* The number of bytes copied per row: `size`.
CopySize(i, left, width) ==
    LET right == RustDiv(left + width, Csp(i))
    IN  IF right > OrigStride(i)
        THEN FgStride(width, i) - (right - OrigStride(i))
        ELSE FgStride(width, i)

\* One row of the copy loop. src_ptr is kept as its distance from base_ptr.
CopyRow(i, src_ptr, left, size, row) ==
    IF src_ptr + size <= 0 THEN row
    ELSE IF src_ptr < 0
    THEN [c \in DOMAIN row |->
            IF c >= Abs(left) /\ c < size THEN SrcByte(i, src_ptr + c) ELSE row[c]]
    ELSE [c \in DOMAIN row |->
            IF c < size THEN SrcByte(i, src_ptr + c) ELSE row[c]]

\* The copy loop of plane i from row r on: copy, advance a full row, and
\* `if (src_ptr as usize) > max_offset { break }`.
RECURSIVE CopyRows(_, _, _, _, _, _, _)
CopyRows(i, r, rows, src_ptr, left, size, plane) ==
    IF r >= rows THEN plane
    ELSE LET copied == [plane EXCEPT ![r] = CopyRow(i, src_ptr, left, size, plane[r])]
             next_ptr == src_ptr + OrigStride(i)
         IN  IF next_ptr > PlaneSize(i) THEN copied
             ELSE CopyRows(i, r + 1, rows, next_ptr, left, size, copied)

\* crop_x264_pic(): plane i of fg_pic after the copy.
CropPlane(i, top, left, width, plane) ==
    LET offset == RustDiv(OrigStride(i) * top, Csp(i)) + RustDiv(left, Csp(i))
    IN  CopyRows(i, 0, fovea \div Csp(i), offset, left,
                 CopySize(i, left, width), plane)

\* The gaze positions a client can hand over: to_video_coords() clamps to
\* 0..width and 0..height, both ends included.
CropGazes == [p_x : 0..SrcWidth, p_y : 0..SrcHeight]

NewCrop(gazes) ==
    /\ crop_gaze \in gazes
    /\ crop_ret = None
    /\ fg_pic = BlankPic(fovea)

\* crop_x264_pic(&mut gaze, self.fovea, self.fovea)
CropX264Pic ==
    LET top == CropOrigin(crop_gaze.p_y, fovea)
        left == CropOrigin(crop_gaze.p_x, fovea)
    IN  /\ crop_ret = None
        /\ crop_ret' = [top |-> top, left |-> left, gaze |-> CropGaze(crop_gaze)]
        /\ fg_pic' = [i \in 0..2 |-> CropPlane(i, top, left, fovea, fg_pic[i])]
        /\ UNCHANGED crop_gaze
        /\ UNCHANGED notCrop

\* The crop, not running.
IdleCrop == crop_gaze = None /\ crop_ret = None /\ fg_pic = None

(***************************************************************************)
(* UserStudy: next(), run() and the main loop of user_study::run           *)
(***************************************************************************)
\* The settings queue up to MaxAttempts attempts of each delay; at most
\* MaxRows rows are appended to the CSV.
MaxAttempts == 1
MaxRows == 2

\* The delay entries of data/settings.toml for the video, by their delay_ms.
DelaySettings == {<<100>>, <<0, 100>>}

\* The quality presets (the keys 0..9 select one).
Qualities == {0, 9}

\* enum State
Video(q) == [tag |-> "Video", quality |-> q]
Accept(q) == [tag |-> "Accept", quality |-> q]
Pause == [tag |-> "Pause"]
StInit == [tag |-> "Init"]
Calibrate == [tag |-> "Calibrate"]
Baseline == [tag |-> "Baseline"]
Quit == [tag |-> "Quit"]

\* enum Event; Event::Video { quality } is EvVideo(q).
EvAccept == [ev |-> "Accept"]
EvQuit == [ev |-> "Quit"]
EvBaseline == [ev |-> "Baseline"]
EvCalibrate == [ev |-> "Calibrate"]
EvPause == [ev |-> "Pause"]
EvResume == [ev |-> "Resume"]
EvVideo(q) == [ev |-> "Video", quality |-> q]
EvNone == [ev |-> "None"]

Events ==
    {EvAccept, EvQuit, EvBaseline, EvCalibrate, EvPause, EvResume, EvNone}
        \cup {EvVideo(q) : q \in Qualities}

\* Mutant: Pause is accepted in every state.
NextPauseAnywhere(st, event) ==
    IF event = EvQuit THEN Quit
    ELSE IF event = EvCalibrate THEN Calibrate
    ELSE IF event = EvBaseline THEN Baseline
    ELSE IF event.ev = "Video" THEN Video(event.quality)
    ELSE IF event = EvPause THEN Pause
    ELSE IF st = Pause /\ event = EvResume THEN Video(0)
    ELSE IF st.tag = "Video" /\ event = EvAccept THEN Accept(st.quality)
    ELSE st

\* UserStudy::next(): the state after `event` in state st.
StudyNext(st, event) ==
    IF event = EvQuit THEN Quit
    ELSE IF event = EvCalibrate THEN Calibrate
    ELSE IF event = EvBaseline THEN Baseline
    ELSE IF event.ev = "Video" THEN Video(event.quality)
    ELSE IF st.tag = "Video" /\ event = EvPause THEN Pause
    ELSE IF st = Pause /\ event = EvResume THEN Video(0)
    ELSE IF st.tag = "Video" /\ event = EvAccept THEN Accept(st.quality)
    ELSE st

\* The sequences that hold each element of `setting` `attempts` times:
\* the queue of UserStudy::new() after the shuffle.
Count(seq, x) == Cardinality({i \in DOMAIN seq : seq[i] = x})
Range(seq) == {seq[i] : i \in DOMAIN seq}
Shuffles(setting, attempts) ==
    {q \in [1..(attempts * Len(setting)) -> Range(setting)] :
        \A x \in Range(setting) : Count(q, x) = attempts}

\* No pipeline exists outside the Video arm of run().
NoPipeline ==
    /\ p_mode = "study" /\ port = FALSE
    /\ enc_pc = "none" /\ enc_result = "none" /\ enc_cause = "none"
    /\ disp_pc = "none" /\ run_result = "none"
    /\ gaze_ch = <<>> /\ nal_ch = <<>> /\ cmd_ch = <<>>
    /\ frames_encoded = 0 /\ keys_handled = 0 /\ asg_triggered = FALSE

\* UserStudy::new()
NewStudy(settings, attempts) ==
    /\ state = StInit
    /\ \E setting \in settings, n \in attempts :
          /\ delays \in Shuffles(setting, n)
          /\ num_delays = n * Len(setting)
    /\ playing = 0
    /\ csv_rows = <<>>
    /\ popped = <<>>
    /\ quit_seen = FALSE
    /\ study_pc = "event"

\* Mutant: the study never ends by itself.
AfterAcceptAlwaysPause(rest) == Pause

\* run(), State::Accept: the transition right after the pop.
AfterAccept(rest) == IF rest = <<>> THEN Quit ELSE Pause

\* The main loop: an event read from the terminal (or none: Event::None),
\* next(event), and the break on Quit. A failed read returns the error.
StudyEvent(event, read_ok) ==
    /\ study_pc = "event"
    /\ IF ~read_ok
       THEN study_pc' = "err" /\ UNCHANGED <<state, quit_seen>>
       ELSE /\ state' = StudyNext(state, event)
            /\ quit_seen' = (quit_seen \/ event = EvQuit)
            /\ study_pc' = IF state' = Quit THEN "done" ELSE "run"
    /\ UNCHANGED <<delays, num_delays, playing, csv_rows, popped>>
    /\ UNCHANGED <<pipeVars, notStudy>>

\* run() in the states Init, Accept, Pause, Calibrate and Baseline. ok: the
\* video opens and the tracker calibrates (else the process stops), mpv
\* plays the baseline (else run() returns the error).
StudyRun(ok) ==
    /\ study_pc = "run"
    /\ state.tag \in {"Init", "Accept", "Pause", "Calibrate", "Baseline"}
    /\ IF state = StInit
       THEN /\ state' = Calibrate /\ study_pc' = "event"
            /\ UNCHANGED <<delays, popped>>
       ELSE IF state.tag = "Accept"
       THEN LET rest == IF delays = <<>> THEN delays
                        ELSE SubSeq(delays, 1, Len(delays) - 1)
            IN  /\ delays' = rest
                /\ popped' = IF delays = <<>> THEN popped
                             ELSE Append(popped, delays[Len(delays)])
                /\ state' = AfterAccept(rest)
                /\ study_pc' = "event"
       ELSE IF state = Pause
       THEN study_pc' = "event" /\ UNCHANGED <<state, delays, popped>>
       ELSE IF state = Calibrate
       THEN /\ IF ok THEN state' = Pause /\ study_pc' = "event"
                     ELSE study_pc' = "stopped" /\ UNCHANGED state
            /\ UNCHANGED <<delays, popped>>
       ELSE /\ IF ok THEN state' = Pause /\ study_pc' = "event"
                     ELSE study_pc' = "err" /\ UNCHANGED state
            /\ UNCHANGED <<delays, popped>>
    /\ UNCHANGED <<num_delays, playing, csv_rows, quit_seen>>
    /\ UNCHANGED <<pipeVars, notStudy>>

\* run() in State::Video { quality: q }, up to the spawn of the encoder
\* thread: delays.last().unwrap() panics on an empty list.
StudyVideoStart(ok) ==
    /\ study_pc = "run"
    /\ state.tag = "Video"
    /\ IF ~ok \/ delays = <<>>
       THEN /\ study_pc' = "stopped"
            /\ UNCHANGED <<playing, pipeVars>>
       ELSE IF state.quality \notin 0..9
       THEN /\ study_pc' = "err"
            /\ UNCHANGED <<playing, pipeVars>>
       ELSE /\ study_pc' = "video"
            /\ playing' = state.quality
            /\ p_mode' = "study" /\ port' = FALSE
            /\ enc_pc' = "wait_start" /\ disp_pc' = "prime"
            /\ enc_result' = "running" /\ enc_cause' = "running"
            /\ run_result' = "running"
            /\ gaze_ch' = <<>> /\ nal_ch' = <<>> /\ cmd_ch' = <<>>
            /\ frames_encoded' = 0 /\ keys_handled' = 0
            /\ UNCHANGED asg_triggered
    /\ UNCHANGED <<state, delays, num_delays, csv_rows, popped, quit_seen>>
    /\ UNCHANGED notStudy

\* The keys the display loop matches on; Num q is [key |-> "Num", quality |-> q].
VideoKeys ==
    {[key |-> k] : k \in {"none", "other", "Escape", "P", "C", "B", "Return"}}
        \cup {[key |-> "Num", quality |-> q] : q \in Qualities}

\* The event the display loop hands to next() for a key.
KeyEvent(key) ==
    IF key.key = "Escape" THEN EvQuit
    ELSE IF key.key = "P" THEN EvPause
    ELSE IF key.key = "C" THEN EvCalibrate
    ELSE IF key.key = "B" THEN EvBaseline
    ELSE IF key.key = "Return" THEN EvAccept
    ELSE IF key.key = "Num" THEN EvVideo(key.quality)
    ELSE EvNone

\* The same key as the pipeline sees it.
KeyClass(key) ==
    IF key.key \in {"none", "other"} THEN key.key
    ELSE IF key.key = "Return" THEN "return"
    ELSE "stop"

\* One turn of the display loop of the Video arm: display_frame(), then
\* keyboard_event() and the match on the key. Return appends the CSV row of
\* the delay and preset being played (writeln!(..)?) before next(Accept).
StudyDisplay(key, log_ok) ==
    /\ study_pc = "video"
    /\ DispDisplayLoop(KeyClass(key), log_ok)
    /\ (key.key = "Return" /\ log_ok) => Len(csv_rows) < MaxRows
    /\ csv_rows' = IF key.key = "Return" /\ log_ok
                   THEN Append(csv_rows, [delay |-> delays[Len(delays)],
                                          quality |-> playing])
                   ELSE csv_rows
    /\ state' = IF key.key = "Return" /\ ~log_ok THEN state
                ELSE StudyNext(state, KeyEvent(key))
    /\ quit_seen' = (quit_seen \/ key.key = "Escape")
    /\ UNCHANGED <<delays, num_delays, playing, popped, study_pc>>
    /\ UNCHANGED notStudy

\* The Video arm is left: by `?` out of the loop, or after the join.
StudyVideoEnd ==
    /\ study_pc = "video"
    /\ disp_pc \in {"joined", "returned"}
    /\ study_pc' = IF run_result = "ok" THEN "event" ELSE "err"
    /\ p_mode' = "study" /\ port' = FALSE
    /\ enc_pc' = "none" /\ enc_result' = "none" /\ enc_cause' = "none"
    /\ disp_pc' = "none" /\ run_result' = "none"
    /\ gaze_ch' = <<>> /\ nal_ch' = <<>> /\ cmd_ch' = <<>>
    /\ frames_encoded' = 0 /\ keys_handled' = 0
    /\ UNCHANGED asg_triggered
    /\ UNCHANGED <<state, delays, num_delays, playing, csv_rows, popped, quit_seen>>
    /\ UNCHANGED notStudy

\* The user study, not running.
IdleStudy == NewStudy({<<>>}, {0})

(***************************************************************************)
(* latency.rs: the trial loop of main()                                    *)
(***************************************************************************)
\* opt.trials is at most this.
MaxTrials == 2

\* Outcomes of p.read(..) and of the parse of what was read.
SerialReads == {"ok", "io_err", "parse_err"}

\* main() before the loop: `let mut count = opt.trials`.
NewLatency(trials) ==
    /\ count \in trials
    /\ e2e_printed = 0
    /\ serial_read = "none"
    /\ lat_pc = "trial"

\* `while count > 0`: the channels of the next trial, or the end of main().
LatTrialStart ==
    /\ lat_pc = "trial"
    /\ IF count > 0
       THEN /\ lat_pc' = "run"
            /\ enc_pc' = "unspawned" /\ disp_pc' = "first_gaze"
            /\ enc_result' = "running" /\ enc_cause' = "running"
            /\ run_result' = "running"
            /\ gaze_ch' = <<>> /\ nal_ch' = <<>> /\ cmd_ch' = <<>>
            /\ frames_encoded' = 0 /\ keys_handled' = 0
            /\ asg_triggered' = FALSE
            /\ UNCHANGED <<p_mode, port>>
       ELSE /\ lat_pc' = "done"
            /\ UNCHANGED pipeVars
    /\ UNCHANGED <<count, e2e_printed, serial_read>>
    /\ UNCHANGED notLat

\* After the display loop: t_enc.join().unwrap()? (or an earlier `?`), then
\* the read of the measurement from the Arduino, and `count -= 1`.
LatTrialEnd(read) ==
    /\ lat_pc = "run"
    /\ disp_pc \in {"joined", "returned"}
    /\ IF run_result # "ok"
       THEN /\ lat_pc' = "err"
            /\ UNCHANGED <<count, e2e_printed, serial_read>>
       ELSE IF ~port
       THEN /\ count' = count - 1
            /\ lat_pc' = "trial"
            /\ UNCHANGED <<e2e_printed, serial_read>>
       ELSE /\ serial_read' = read
            /\ IF read = "ok"
               THEN /\ e2e_printed' = e2e_printed + 1
                    /\ count' = count - 1
                    /\ lat_pc' = "trial"
               ELSE /\ lat_pc' = "err"
                    /\ UNCHANGED <<count, e2e_printed>>
    /\ UNCHANGED pipeVars
    /\ UNCHANGED notLat

\* The latency binary, not running.
IdleLat == NewLatency({0})

(***************************************************************************)
(* The Eyelink session of the latency binary: FvideoClient::new() starts   *)
(* the recording, Drop for FvideoClient releases the tracker.              *)
(***************************************************************************)
\* Outcomes of eyelink::stop_recording() inside drop(): Ok, Ok after
\* break_pressed() (the connection is closed there already), Err.
StopOutcomes == {"ok", "break", "err"}

\* FvideoClient::new(.., GazeSource::Eyelink, ..) has returned: the
\* connection is open and the tracker records.
NewSession ==
    /\ proc = "alive"
    /\ exit_path = "none"
    /\ release = <<>>

\* The handler of ctrlc::set_handler: process::exit(1).
Sigint ==
    /\ proc = "alive"
    /\ proc' = "ended"
    /\ exit_path' = "sigint"
    /\ UNCHANGED <<release, latVars, pipeVars>>
    /\ UNCHANGED notSess

\* display_frame() runs into unimplemented!(), or t_enc.join().unwrap()
\* meets a panicked encoder thread: main() unwinds.
LatPanic ==
    /\ proc = "alive"
    /\ lat_pc = "run"
    /\ disp_pc \in {"display", "join"}
    /\ lat_pc' = "panicked"
    /\ UNCHANGED <<count, e2e_printed, serial_read, pipeVars, sessVars>>
    /\ UNCHANGED notSess

\* main() returns (Ok or Err) or unwinds, and `client` is dropped:
\* stop_recording(None), process::exit(1) on its error, else
\* close_eyelink_connection(); then the process ends.
ClientDrop(stopped) ==
    /\ proc = "alive"
    /\ lat_pc \in {"done", "err", "panicked"}
    /\ proc' = "ended"
    /\ exit_path' = IF stopped = "err" THEN "exit"
                    ELSE IF lat_pc = "done" THEN "return"
                    ELSE IF lat_pc = "err" THEN "error" ELSE "panic"
    /\ release' = IF stopped = "err" THEN <<"stop">>
                  ELSE IF stopped = "break" THEN <<"stop", "close", "close">>
                  ELSE <<"stop", "close">>
    /\ UNCHANGED <<latVars, pipeVars>>
    /\ UNCHANGED notSess

\* No tracker session.
IdleSess == NewSession

(***************************************************************************)
(* parse_y4m_header                                                        *)
(***************************************************************************)
\* Header lines are sequences of one-character strings.
Digits == {"0", "1", "2", "3", "4", "5", "6", "7", "8", "9"}
Whitespace == {" ", "\t", "\n"}

DigitVal(c) ==
    CASE c = "0" -> 0 [] c = "1" -> 1 [] c = "2" -> 2 [] c = "3" -> 3 [] c = "4" -> 4
      [] c = "5" -> 5 [] c = "6" -> 6 [] c = "7" -> 7 [] c = "8" -> 8 [] c = "9" -> 9

\* The value of a sequence of digits.
RECURSIVE DecVal(_)
DecVal(ds) ==
    IF ds = <<>> THEN 0
    ELSE 10 * DecVal(SubSeq(ds, 1, Len(ds) - 1)) + DigitVal(ds[Len(ds)])

\* A u32 has at most ten digits; the headers of the model have fields of
\* fewer than ten digits, or of more (which overflow).
U32Digits == 10

\* str::parse::<u32>() on a capture of [0-9]+
ParseU32(ds) ==
    IF ds = <<>> \/ Len(ds) >= U32Digits THEN [err |-> "ParseIntError"]
    ELSE [ok |-> DecVal(ds)]

\* str::parse::<f64>() on a piece of a capture of [0-9:]+
ParseF64(ds) ==
    IF ds = <<>> THEN [err |-> "ParseFloatError"] ELSE [ok |-> DecVal(ds)]

\* The longest prefix of s made of characters of `set`.
RECURSIVE TakeWhile(_, _)
TakeWhile(s, set) ==
    IF s = <<>> \/ Head(s) \notin set THEN <<>>
    ELSE <<Head(s)>> \o TakeWhile(Tail(s), set)

Drop(s, n) == SubSeq(s, n + 1, Len(s))
StartsWith(s, p) == Len(s) >= Len(p) /\ SubSeq(s, 1, Len(p)) = p

\* One `X(?P<name>[set]+)` of the regex at the start of s: the capture and
\* the rest, or no match.
Field(s, letter, set) ==
    LET cap == IF StartsWith(s, <<letter>>) THEN TakeWhile(Tail(s), set) ELSE <<>>
    IN  IF cap = <<>> THEN [matched |-> FALSE]
        ELSE [matched |-> TRUE, cap |-> cap, rest |-> Drop(s, 1 + Len(cap))]

\* `\s` of the regex at the start of s: the rest after it, or no match.
Space(s) ==
    IF s # <<>> /\ Head(s) \in Whitespace
    THEN [matched |-> TRUE, rest |-> Tail(s)] ELSE [matched |-> FALSE]

Magic == <<"Y", "U", "V", "4", "M", "P", "E", "G", "2">>

\* RE.captures(src): ^YUV4MPEG2\sW([0-9]+)\sH([0-9]+)\sF([0-9:]+).*
Captures(s) ==
    IF ~StartsWith(s, Magic) THEN [matched |-> FALSE]
    ELSE LET s1 == Space(Drop(s, Len(Magic)))
         IN  IF ~s1.matched THEN [matched |-> FALSE]
             ELSE LET w == Field(s1.rest, "W", Digits)
                  IN  IF ~w.matched THEN [matched |-> FALSE]
                      ELSE LET s2 == Space(w.rest)
                           IN  IF ~s2.matched THEN [matched |-> FALSE]
                               ELSE LET h == Field(s2.rest, "H", Digits)
                                    IN  IF ~h.matched THEN [matched |-> FALSE]
                                        ELSE LET s3 == Space(h.rest)
                                             IN  IF ~s3.matched THEN [matched |-> FALSE]
                                                 ELSE LET f == Field(s3.rest, "F", Digits \cup {":"})
                                                      IN  IF ~f.matched THEN [matched |-> FALSE]
                                                          ELSE [matched |-> TRUE, width |-> w.cap,
                                                                height |-> h.cap, frame |-> f.cap]

\* str::split(':'): the pieces between the colons.
RECURSIVE Split(_)
Split(s) ==
    LET first == TakeWhile(s, Digits)
    IN  IF Len(first) = Len(s) THEN <<first>>
        ELSE <<first>> \o Split(Drop(s, Len(first) + 1))

RECURSIVE Gcd(_, _)
Gcd(a, b) == IF b = 0 THEN a ELSE Gcd(b, a % b)

\* The f64 quotient num / den, kept as the fraction in lowest terms; a zero
\* denominator gives an infinity or NaN, not a panic.
F64Div(num, den) ==
    IF den = 0 THEN [not_finite |-> TRUE]
    ELSE [num |-> num \div Gcd(num, den), den |-> den \div Gcd(num, den)]

\* Mutant: the frame rate is taken upside down.
Y4mFpsInverted(ratio) ==
    IF Len(ratio) < 2 THEN [panic |-> "index out of bounds"]
    ELSE LET num == ParseF64(ratio[1])
             den == ParseF64(ratio[2])
         IN  IF "err" \in DOMAIN num THEN num
             ELSE IF "err" \in DOMAIN den THEN den
             ELSE [ok |-> F64Div(den.ok, num.ok)]

\* ratio[0].parse::<f64>()? / ratio[1].parse::<f64>()?
Y4mFps(ratio) ==
    IF Len(ratio) < 2 THEN [panic |-> "index out of bounds"]
    ELSE LET num == ParseF64(ratio[1])
             den == ParseF64(ratio[2])
         IN  IF "err" \in DOMAIN num THEN num
             ELSE IF "err" \in DOMAIN den THEN den
             ELSE [ok |-> F64Div(num.ok, den.ok)]

\* parse_y4m_header(src): Ok((width, height, fps)), Err(error), or a panic.
ParseY4mHeaderOf(s) ==
    LET caps == Captures(s)
    IN  IF ~caps.matched THEN [err |-> "ParseY4MError"]
        ELSE LET width == ParseU32(caps.width)
                 height == ParseU32(caps.height)
             IN  IF "err" \in DOMAIN width THEN width
                 ELSE IF "err" \in DOMAIN height THEN height
                 ELSE LET fps == Y4mFps(Split(caps.frame))
                      IN  IF "ok" \in DOMAIN fps
                          THEN [ok |-> [width |-> width.ok, height |-> height.ok,
                                        fps |-> fps.ok]]
                          ELSE fps

\* The pieces the header lines of the model are put together from.
HdrMagics == {Magic \o <<" ">>, <<"Y", "U", "V", "4", "M", "P", "E", "G", " ">>, Magic}
HdrWidths == {<<"W", "3", "8", "4", "0", " ">>, <<"W", "1", "9", "2", "0", " ">>, <<"W", " ">>, <<" ">>, <<"W", "9", "9", "9", "9", "9", "9", "9", "9", "9", "9", "9", " ">>}
HdrHeights == {<<"H", "2", "1", "6", "0", " ">>, <<"H", "1", "0", "8", "0", " ">>, <<"H", "1", "0", "8", "0">>, <<"H", "x", " ">>}
HdrFrames == {<<"F", "2", "4", ":", "1">>, <<"F", "6", "0", ":", "1">>, <<"F", "2", "4", "0", "0", "0", ":", "1", "0", "0", "1">>, <<"F", "4", "8", ":", "2">>, <<"F", "2", "4">>, <<"F", "2", "4", ":">>, <<"F", ":", "1">>, <<"F", "2", "4", ":", "0">>, <<"F", "3", "0", ":", "1", ":", "1">>, <<"F">>}
HdrRests == {<<" ", "I", "p", "\n">>, <<>>}

Headers ==
    {m \o w \o h \o f \o r :
        m \in HdrMagics, w \in HdrWidths, h \in HdrHeights, f \in HdrFrames,
        r \in HdrRests}

NewHeader(srcs) ==
    /\ hdr \in srcs
    /\ y4m_ret = None

ParseY4mHeader ==
    /\ y4m_ret = None
    /\ y4m_ret' = ParseY4mHeaderOf(hdr)
    /\ UNCHANGED hdr
    /\ UNCHANGED notY4m

\* No header being parsed.
IdleY4m == NewHeader({<<>>})

(***************************************************************************)
(* compute_alpha                                                           *)
(***************************************************************************)
\* The f32 arithmetic is done in fixed point with 24 fractional bits, the
\* width of an f32 mantissa: AlphaOne stands for 1.0.  A product is taken in
\* halves of 12 bits so that every intermediate value stays below 2^31.
AlphaOne == 16777216
AlphaHalf == 4096
ExpTerms == 8

FxMul(a, b) ==
    LET a1 == a \div AlphaHalf
        a0 == a % AlphaHalf
        b1 == b \div AlphaHalf
        b0 == b % AlphaHalf
    IN  a1 * b1
        + (a1 * b0 + a0 * b1 + (a0 * b0) \div AlphaHalf + AlphaHalf \div 2) \div AlphaHalf

\* 1 - (y/k) (1 - (y/(k+1)) (...)): the series of exp(-y) from term k on.
RECURSIVE ExpSeries(_, _)
ExpSeries(y, k) ==
    IF k > ExpTerms THEN AlphaOne
    ELSE AlphaOne - FxMul(y, ExpSeries(y, k + 1)) \div k

Square(a) == FxMul(a, a)

\* exp(-(r2 / (2 (w/5)^2))) for a squared distance r2 of at most w^2 / 2:
\* the exponent 25 r2 / (2 w^2) is at most 6.25, the series is taken at one
\* sixteenth of it and the result raised to the sixteenth power.
AlphaExp(r2, w) ==
    LET y == (25 * r2 * (AlphaOne \div 32) + (w * w) \div 2) \div (w * w)
    IN  Square(Square(Square(Square(ExpSeries(y, 1)))))

\* (896.0 * exp(..)).round() as u8, a saturating cast, under cmp::min(255, _);
\* 896 = 7 * 128.
AlphaValue(i, j, w) ==
    LET c == w \div 2
        r2 == (i - c) * (i - c) + (j - c) * (j - c)
    IN  Min(255, (7 * AlphaExp(r2, w) + AlphaOne \div 256) \div (AlphaOne \div 128))

MaxFovea == 7
FoveaWidths == (1..MaxFovea) \cup {MbSize}

NewAlpha(widths) ==
    /\ fg_width \in widths
    /\ alpha_j = 0 /\ alpha_i = 0
    /\ alpha_blend = <<>>

\* One turn of the inner loop of compute_alpha: push the entry of (i, j).
AlphaPush ==
    /\ alpha_j < fg_width
    /\ alpha_blend' = Append(alpha_blend, AlphaValue(alpha_i, alpha_j, fg_width))
    /\ IF alpha_i + 1 < fg_width
       THEN alpha_i' = alpha_i + 1 /\ alpha_j' = alpha_j
       ELSE alpha_i' = 0 /\ alpha_j' = alpha_j + 1
    /\ UNCHANGED fg_width
    /\ UNCHANGED notAlpha

\* No alpha mask being computed.
IdleAlpha == NewAlpha({0})

\* The pipeline, not running.
IdlePipe == NewPipeline({"study"}, {FALSE})

\* The client's gaze source, not running.
IdleGaze == NewClient({"Mouse"}, {0})

(***************************************************************************)
(* SpecEnc: encode_frame() under every gaze input.                         *)
(***************************************************************************)
InitEnc == NewServer(FrameDurs, FoveaArgs, NumFramesEnc) /\ InitDisp /\ NewDummy /\ IdleGaze /\ IdlePipe /\ IdleCrop /\ IdleStudy /\ IdleLat /\ IdleSess /\ IdleY4m /\ IdleAlpha

TickEnc == Tick(MaxTimeEnc)

EncodeFrameEnc == EncodeFrame(Gazes \cup {None})

NextEnc == TickEnc \/ EncodeFrameEnc

SpecEnc == InitEnc /\ [][NextEnc]_vars

(***************************************************************************)
(* SpecTS: encode_frame() and the display of the frames it returns.        *)
(***************************************************************************)
PairGazes == {[p_x |-> 0, p_y |-> 0], [p_x |-> DIFF_THRESH + 1, p_y |-> 0],
              [p_x |-> DIFF_THRESH, p_y |-> DIFF_THRESH + 1]}

InitTS == NewServer({3}, FoveaArgs, NumFramesTS) /\ InitDisp /\ NewDummy /\ IdleGaze /\ IdlePipe /\ IdleCrop /\ IdleStudy /\ IdleLat /\ IdleSess /\ IdleY4m /\ IdleAlpha

TickTS == Tick(MaxTimeTS)

EncodeFrameTS == EncodeFrame(PairGazes \cup {None})

NextTS == TickTS \/ EncodeFrameTS \/ Display

SpecTS == InitTS /\ [][NextTS]_vars

(***************************************************************************)
(* SpecPace: the paced frame clock of read_frame() over a longer run, with *)
(* encode_frame() called at any rate.                                      *)
(***************************************************************************)
PaceGazes == {None, [p_x |-> DIFF_THRESH + 1, p_y |-> 0]}

InitPace == NewServer(FrameDurs, {1}, NumFrames) /\ InitDisp /\ NewDummy /\ IdleGaze /\ IdlePipe /\ IdleCrop /\ IdleStudy /\ IdleLat /\ IdleSess /\ IdleY4m /\ IdleAlpha

TickPace == Tick(MaxTime)

EncodeFramePace == EncodeFrame(PaceGazes)

NextPace == TickPace \/ EncodeFramePace

SpecPace == InitPace /\ [][NextPace]_vars

(***************************************************************************)
(* SpecDummy: any sequence of FvideoDummyServer::encode_frame calls.       *)
(***************************************************************************)
\* The two-stream server and the compositor, not running.
IdleTwoStream == NewServer({3}, {1}, NumFramesTS) /\ InitDisp

InitDummy == NewDummy /\ IdleTwoStream /\ IdleGaze /\ IdlePipe /\ IdleCrop /\ IdleStudy /\ IdleLat /\ IdleSess /\ IdleY4m /\ IdleAlpha

NextDummy == DummyEncode

SpecDummy == InitDummy /\ [][NextDummy]_vars

(***************************************************************************)
(* SpecDummyOps: the public operations of FvideoDummyServer in any order:  *)
(* encode_frame with any gaze and reset_trigger (triggered() only reads).  *)
(***************************************************************************)
NextDummyOps == DummyEncode \/ ResetTrigger

SpecDummyOps == InitDummy /\ [][NextDummyOps]_vars

(***************************************************************************)
(* SpecGaze: gaze_sample() and triggered_gaze_sample() called in any       *)
(* order as the client clock advances.                                     *)
(***************************************************************************)
InitGaze ==
    /\ NewClient({"Mouse", "Eyelink"}, DelayArgs)
    /\ IdleTwoStream /\ NewDummy /\ IdlePipe /\ IdleCrop /\ IdleStudy /\ IdleLat /\ IdleSess /\ IdleY4m /\ IdleAlpha

GazeSampleCall ==
    \E mouse \in MouseStates, evt \in EyelinkSamples :
        GazeSample(mouse, evt)

TrigPollStep == \E evt \in EyelinkSamples : TrigPoll(evt, TrigThresh)

NextGaze == ClientTick \/ GazeSampleCall \/ TrigCall \/ TrigPollStep

SpecGaze == InitGaze /\ [][NextGaze]_vars

(***************************************************************************)
(* SpecPipe: one pipeline run, the encoder thread and the display loop     *)
(* interleaved in every order. SpecPipeFair: both threads keep being       *)
(* scheduled; nothing makes triggered_gaze_sample() return.                *)
(***************************************************************************)
InitPipe ==
    /\ NewPipeline({"study", "latency"}, BOOLEAN)
    /\ IdleTwoStream /\ NewDummy /\ IdleGaze /\ IdleCrop /\ IdleStudy /\ IdleLat /\ IdleSess /\ IdleY4m /\ IdleAlpha

DispDisplayKey == \E key \in Keys, log_ok \in BOOLEAN : DispDisplay(key, log_ok)

EncStep == EncWaitStart \/ EncSpawn \/ EncRecvGaze \/ EncSendNal \/ EncCheckCmd

DispStep ==
    DispPrime \/ DispStart \/ DispRecvNal \/ DispGaze \/ DispDisplayKey \/ DispJoin

NextPipe == EncStep \/ DispStep \/ DispTrigReturn

SpecPipe == InitPipe /\ [][NextPipe]_vars

SpecPipeFair == SpecPipe /\ WF_vars(EncStep) /\ WF_vars(DispStep)

(***************************************************************************)
(* SpecCrop: crop_x264_pic() at every gaze position, into a pre-filled     *)
(* fg_pic.                                                                 *)
(***************************************************************************)
InitCrop ==
    /\ NewServer({3}, FoveaArgs, NumFramesTS) /\ InitDisp
    /\ NewCrop(CropGazes)
    /\ NewDummy /\ IdleGaze /\ IdlePipe /\ IdleStudy /\ IdleLat /\ IdleSess /\ IdleY4m /\ IdleAlpha

NextCrop == CropX264Pic

SpecCrop == InitCrop /\ [][NextCrop]_vars

(***************************************************************************)
(* SpecStudy: the user study from UserStudy::new() on, under every         *)
(* sequence of terminal events and of keys pressed while a video plays.    *)
(***************************************************************************)
InitStudy ==
    /\ NewStudy(DelaySettings, 0..MaxAttempts)
    /\ NoPipeline
    /\ IdleTwoStream /\ NewDummy /\ IdleGaze /\ IdleCrop /\ IdleLat /\ IdleSess /\ IdleY4m /\ IdleAlpha

StudyEventStep == \E event \in Events, read_ok \in BOOLEAN : StudyEvent(event, read_ok)

StudyRunStep == \E ok \in BOOLEAN : StudyRun(ok)

StudyVideoStartStep == \E ok \in BOOLEAN : StudyVideoStart(ok)

StudyDisplayKey == \E key \in VideoKeys, log_ok \in BOOLEAN : StudyDisplay(key, log_ok)

\* The encoder thread and the display loop while the Video arm runs.
StudyPipeStep ==
    /\ study_pc = "video"
    /\ \/ EncWaitStart \/ EncRecvGaze \/ EncSendNal \/ EncCheckCmd
       \/ DispPrime \/ DispStart \/ DispRecvNal \/ DispGaze \/ DispJoin

NextStudy ==
    \/ StudyEventStep \/ StudyRunStep \/ StudyVideoStartStep
    \/ StudyPipeStep \/ StudyDisplayKey \/ StudyVideoEnd

SpecStudy == InitStudy /\ [][NextStudy]_vars

(***************************************************************************)
(* SpecLat: the latency binary over its trials, with and without the       *)
(* Arduino on the serial port.                                             *)
(***************************************************************************)
InitLat ==
    /\ NewLatency(1..MaxTrials)
    /\ NewPipeline({"latency"}, BOOLEAN)
    /\ IdleTwoStream /\ NewDummy /\ IdleGaze /\ IdleCrop /\ IdleStudy /\ IdleSess /\ IdleY4m /\ IdleAlpha

\* The encoder thread and the display loop of the trial being run.
LatPipeStep ==
    /\ lat_pc = "run"
    /\ \/ EncSpawn \/ EncRecvGaze \/ EncSendNal
       \/ DispPrime \/ DispRecvNal \/ DispGaze \/ DispTrigReturn
       \/ DispDisplay("none", TRUE) \/ DispJoin

LatTrialEndStep == \E read \in SerialReads : LatTrialEnd(read)

NextLat == LatTrialStart \/ LatPipeStep \/ LatTrialEndStep

SpecLat == InitLat /\ [][NextLat]_vars

(***************************************************************************)
(* SpecSess: the latency binary run with the Eyelink (and so with the      *)
(* serial port), from the construction of the client to the end of the     *)
(* process, with SIGINT and panics at any moment.                          *)
(***************************************************************************)
InitSess ==
    /\ NewSession
    /\ NewLatency(1..MaxTrials)
    /\ NewPipeline({"latency"}, {TRUE})
    /\ IdleTwoStream /\ NewDummy /\ IdleGaze /\ IdleCrop /\ IdleStudy
    /\ IdleY4m /\ IdleAlpha

\* main() while the process is alive.
SessMain == proc = "alive" /\ (LatTrialStart \/ LatPipeStep \/ LatTrialEndStep)

ClientDropStep == \E stopped \in StopOutcomes : ClientDrop(stopped)

NextSess == SessMain \/ Sigint \/ LatPanic \/ ClientDropStep

SpecSess == InitSess /\ [][NextSess]_vars

(***************************************************************************)
(* SpecY4m: parse_y4m_header on every header line of the model.            *)
(***************************************************************************)
InitY4m ==
    /\ NewHeader(Headers)
    /\ IdleAlpha
    /\ NewServer({3}, {1}, 1) /\ InitDisp /\ NewDummy /\ IdleGaze /\ IdlePipe
    /\ IdleCrop /\ IdleStudy /\ IdleLat /\ IdleSess

NextY4m == ParseY4mHeader

SpecY4m == InitY4m /\ [][NextY4m]_vars

(***************************************************************************)
(* SpecAlpha: compute_alpha for every width of the model.                  *)
(***************************************************************************)
InitAlpha ==
    /\ NewAlpha(FoveaWidths)
    /\ IdleY4m
    /\ NewServer({3}, {1}, 1) /\ InitDisp /\ NewDummy /\ IdleGaze /\ IdlePipe
    /\ IdleCrop /\ IdleStudy /\ IdleLat /\ IdleSess

NextAlpha == AlphaPush

SpecAlpha == InitAlpha /\ [][NextAlpha]_vars

(***************************************************************************)
(* Claims about FvideoTwoStreamServer::encode_frame                        *)
(***************************************************************************)
\* The gaze an encode_frame call works with: the supplied one, or the
\* last_gaze_sample of before the call when None was supplied.
CallGaze == IF call.gaze_in = None THEN call.last ELSE call.gaze_in

\* Whether the gaze of the call differs from the last_gaze_sample of before
\* the call by more than 10 px on either axis.
CallGazeMoved ==
    \/ CallGaze.p_x - call.last.p_x > 10 \/ call.last.p_x - CallGaze.p_x > 10
    \/ CallGaze.p_y - call.last.p_y > 10 \/ call.last.p_y - CallGaze.p_y > 10

\* C1: in every encode_frame call that returns Ok, the foreground is cropped
\* and encoded exactly when read_frame advanced the source frame or the gaze
\* differs from last_gaze_sample by more than 10 px on either axis; in every
\* other call nothing is encoded and the result is (None, None). (A call whose
\* read_frame fails returns the error and encodes nothing.)
C1_FgExactlyOnAdvanceOrGaze ==
    /\ call.ret = "ok" =>
          /\ call.fg_encoded <=> (call.advanced \/ CallGazeMoved)
          /\ ~(call.advanced \/ CallGazeMoved) =>
                 /\ ~call.bg_encoded
                 /\ nals = [fg |-> None, bg |-> None]
    /\ call.ret = "err" => ~call.fg_encoded /\ ~call.bg_encoded

\* C1 witness: a call in which the frame did not advance and the gaze moved
\* 11 px encoded the foreground and returned it.
C1_Witness ==
    /\ call.ret = "ok" /\ ~call.advanced /\ call.gaze_in # None
    /\ CallGazeMoved /\ call.fg_encoded /\ nals.fg # None

\* C2: a background NAL is returned (and the background encoded) only in
\* calls where read_frame advanced the source frame; a call in which the
\* pacing condition is not met returns bg = None however far the gaze moved.
C2_BgOnlyOnAdvance ==
    call.ret = "ok" =>
        /\ call.bg_encoded <=> call.advanced
        /\ nals.bg # None => call.advanced
        /\ ~call.advanced => nals.bg = None

\* C2 witness: the gaze moved on both axes in a call without advance; the
\* foreground was encoded, the background was not.
C2_Witness ==
    /\ call.ret = "ok" /\ ~call.advanced /\ call.gaze_in # None
    /\ call.gaze_in.p_x - call.last.p_x > 10 /\ call.gaze_in.p_y - call.last.p_y > 10
    /\ call.fg_encoded /\ nals.bg = None /\ ~call.bg_encoded

\* The returned foreground is paired with the gaze that fixed its crop: the
\* gaze of the call with +1 on each axis where p - fovea/2 is odd, and the
\* crop's top-left is that gaze minus fovea/2.
FgPairedWithCropGaze ==
    (call.ret = "ok" /\ nals # NoFrames /\ nals.fg # None) =>
        LET g == nals.fg.gaze
            r == nals.fg.nal
        IN  /\ r.left = g.p_x - fovea \div 2
            /\ r.top = g.p_y - fovea \div 2
            /\ r.left % 2 = 0 /\ r.top % 2 = 0
            /\ g.p_x \in {CallGaze.p_x, CallGaze.p_x + 1}
            /\ g.p_y \in {CallGaze.p_y, CallGaze.p_y + 1}
            /\ (g.p_x = CallGaze.p_x) <=> ((CallGaze.p_x - fovea \div 2) % 2 = 0)
            /\ (g.p_y = CallGaze.p_y) <=> ((CallGaze.p_y - fovea \div 2) % 2 = 0)

\* A display_frame call that is given a foreground and returns draws the
\* patch centred on the gaze paired with that foreground.
PatchPlacedFromPairedGaze ==
    (nals # NoFrames /\ nals' = NoFrames /\ nals.fg # None /\ ~client_panicked') =>
        fg_rect' = [c_x |-> nals.fg.gaze.p_x, c_y |-> nals.fg.gaze.p_y]

\* C3: whenever encode_frame returns a foreground NAL, the GazeSample returned
\* with it is the gaze whose (p_x, p_y) fixed the crop rectangle (after the +1
\* parity adjustments; last_gaze_sample when the input was None), and the
\* client places the patch from that paired sample.
C3_FgPairedWithItsGaze ==
    []FgPairedWithCropGaze /\ [][PatchPlacedFromPairedGaze]_vars

\* C3 witness: a foreground cropped at a gaze whose x was adjusted from 11 to
\* 12 has been displayed, centred on x = 12.
C3_Witness ==
    /\ fg_rect # None /\ fg_frame # None
    /\ fg_rect.c_x = DIFF_THRESH + 2
    /\ fg_frame.left = fg_rect.c_x - fovea \div 2

\* C10: over a run of N seconds at fps frames per second read_frame advances
\* frame_cnt no more than ceil(N * fps) + 1 times. N * fps is the elapsed time
\* over frame_dur; only frames actually read are counted.
C10_PacedReading ==
    frame_cnt <= num_frames =>
        frame_cnt <= CeilDiv(frame_time_elapsed, frame_dur) + 1

(***************************************************************************)
(* Claims about FvideoDummyServer::encode_frame                            *)
(***************************************************************************)
\* Whether the i-th gaze passed to encode_frame differs from the first one
\* ever passed by more than 50 px on either axis.
ExceedsFirst(i) ==
    \/ d_gazes[i].p_x - d_gazes[1].p_x > 50 \/ d_gazes[1].p_x - d_gazes[i].p_x > 50
    \/ d_gazes[i].p_y - d_gazes[1].p_y > 50 \/ d_gazes[1].p_y - d_gazes[i].p_y > 50

\* The index of the last call, and whether it is the first one to exceed.
LastCallIdx == Len(d_gazes)
NoneExceededYet == \A i \in 1..LastCallIdx : ~ExceedsFirst(i)
LastIsFirstToExceed ==
    /\ LastCallIdx >= 1 /\ ExceedsFirst(LastCallIdx)
    /\ \A i \in 1..(LastCallIdx - 1) : ~ExceedsFirst(i)

\* C4: every encode_frame call made while no gaze seen so far differs from
\* the first-ever gaze by more than 50 px on either axis encodes the black
\* picture and leaves triggered() false; the first call whose gaze exceeds the
\* threshold, measured against the first gaze, encodes the white picture.
C4_BlackUntilFirstExceed ==
    LastCallIdx >= 1 =>
        /\ NoneExceededYet =>
               d_call.ret = "ok" /\ d_call.pic = "black" /\ ~triggered
        /\ LastIsFirstToExceed =>
               d_call.ret = "ok" /\ d_call.pic = "white" /\ triggered

\* C4 witness: the third call is the first to exceed; its gaze is 51 px from
\* the first gaze on the x axis alone, the second gaze was 50 px from it.
C4_Witness ==
    /\ LastCallIdx = 3 /\ LastIsFirstToExceed
    /\ d_gazes[1].p_x = 0 /\ d_gazes[2].p_x = DUMMY_DIFF_THRESH
    /\ d_gazes[3].p_x = DUMMY_DIFF_THRESH + 1 /\ d_gazes[3].p_y = d_gazes[1].p_y
    /\ d_call.ret = "ok" /\ d_call.pic = "white"

\* The index of the first call whose gaze exceeded the threshold, 0 if none.
FirstExceedIdx ==
    IF \E i \in 1..LastCallIdx : ExceedsFirst(i)
    THEN CHOOSE i \in 1..LastCallIdx :
            ExceedsFirst(i) /\ \A j \in 1..(i - 1) : ~ExceedsFirst(j)
    ELSE 0

\* C5: once the gaze delta first exceeds the threshold the white picture is
\* returned for exactly LINGER_FRAMES = 1 encode (the exceeding call itself,
\* with a bg NAL) and every later call fails; for the gazes (0,0), (200,200)
\* the second call returns the one white bg NAL and the third call fails.
C5_OneWhiteThenError ==
    /\ (FirstExceedIdx # 0 /\ LastCallIdx = FirstExceedIdx) =>
           /\ d_call.ret = "ok" /\ d_call.pic = "white"
           /\ d_call.bg = [pic |-> "white"] /\ triggered_buff = 1
    /\ (FirstExceedIdx # 0 /\ LastCallIdx > FirstExceedIdx) =>
           d_call.ret = "err" /\ triggered_buff = 1
    /\ (LastCallIdx >= 2 /\ d_gazes[1] = [p_x |-> 0, p_y |-> 0]
            /\ d_gazes[2] = [p_x |-> 200, p_y |-> 200]) =>
           IF LastCallIdx = 2
           THEN d_call.ret = "ok" /\ d_call.bg = [pic |-> "white"]
           ELSE d_call.ret = "err"

\* C5 witness: first gaze (0,0), then (200,200), and the third call failed.
C5_Witness ==
    /\ LastCallIdx = 3
    /\ d_gazes[1] = [p_x |-> 0, p_y |-> 0]
    /\ d_gazes[2] = [p_x |-> 200, p_y |-> 200]
    /\ d_call.ret = "err"

(***************************************************************************)
(* Claims about FvideoClient::gaze_sample and triggered_gaze_sample        *)
(***************************************************************************)
\* A step that is one gaze_sample() call: outside the triggered loop it is
\* the only operation that hands out a sequence number.
IsGazeSampleCall == trig_pc = "idle" /\ seqno' = seqno + 1

\* C6: over consecutive gaze_sample() returns the seqno of the delivered
\* sample is strictly increasing and its time is non-decreasing, with or
\* without an artificial delay and with triggered_gaze_sample() calls in
\* between.
C6_DeliveredSeqnoIncreasing ==
    [][(IsGazeSampleCall /\ delivered # None) =>
          /\ delivered'.sample.seqno > delivered.sample.seqno
          /\ delivered'.sample.time >= delivered.sample.time]_vars

\* C7: with an artificial delay d > 0 every sample gaze_sample() returns was
\* captured at least d before the instant of the return.
C7_DeliveredAtLeastDelayOld ==
    (delay # None /\ delivered # None) =>
        delivered.at - delivered.sample.time >= delay.some

\* A step in which triggered_gaze_sample() returns.
IsTrigReturn == trig_ret' # trig_ret /\ trig_ret' # None

\* C8: triggered_gaze_sample(thresh) returns only in a step that observes a
\* new sample differing from the front of the queue by more than thresh on
\* either axis, and what it returns is that front sample, not the new one.
C8_TrigReturnsPreJumpSample ==
    [][IsTrigReturn =>
          LET front == gaze_samples[1]
              new == gaze_samples'[Len(gaze_samples')]
          IN  /\ trig_pc = "polling"
              /\ new.time = now
              /\ \/ new.p_x - front.p_x > TrigThresh
                 \/ front.p_x - new.p_x > TrigThresh
                 \/ new.p_y - front.p_y > TrigThresh
                 \/ front.p_y - new.p_y > TrigThresh
              /\ trig_ret'.sample = front
              /\ trig_ret'.sample # new]_vars

\* C8 witness: a delayed client whose queue held more than the front sample
\* when triggered_gaze_sample() returned that front sample.
C8_Witness ==
    /\ trig_ret # None /\ client_triggered /\ trig_pc = "idle"
    /\ delay # None /\ Len(gaze_samples) >= 2
    /\ trig_ret.sample.seqno < gaze_samples[1].seqno
    /\ trig_ret.sample.p_x # gaze_samples[1].p_x

(***************************************************************************)
(* Claims about the pipeline                                               *)
(***************************************************************************)
\* The encoder thread left because encode_frame failed or because it saw Stop.
EncoderStopped == enc_pc = "exited" /\ enc_cause \in {"encode_err", "stop"}

\* The encoder waits for a gaze sample that is not there while the display
\* loop waits for a tuple that is not there.
BothBlocked ==
    /\ enc_pc = "recv_gaze" /\ gaze_ch = <<>>
    /\ disp_pc = "recv_nal" /\ nal_ch = <<>>

\* C9: in every pipeline run, once the encoder thread got an error from
\* encode_frame or observed Stop, it has exited, the display loop leaves its
\* receive loop and the join of the encoder thread completes; the encoder is
\* never blocked on gaze_ch while the display loop is blocked on nal_ch.
C9_StopReachesJoin ==
    /\ [](~BothBlocked)
    /\ (EncoderStopped ~> disp_pc = "joined")

(***************************************************************************)
(* Claims about FvideoTwoStreamServer::crop_x264_pic                       *)
(***************************************************************************)
IsEven(n) == n % 2 = 0

\* The source row and column that row r, column c of plane i of the crop
\* stand for.
SrcRowOf(i, r) == crop_ret.top \div Csp(i) + r
SrcColOf(i, c) == crop_ret.left \div Csp(i) + c
RowInSource(i, r) == SrcRowOf(i, r) >= 0 /\ SrcRowOf(i, r) < SrcHeight \div Csp(i)
ColInSource(i, c) == SrcColOf(i, c) >= 0 /\ SrcColOf(i, c) < SrcWidth \div Csp(i)

\* C11: after crop_x264_pic(gaze, F, F) the top-left of the crop is even on
\* both axes and F is even, the gaze was incremented by 1 exactly on the axes
\* where p - F/2 was odd, and every destination row whose source row lies
\* above the top or below the bottom of the source keeps its pre-filled bytes.
C11_EvenOriginRowsOutsideKept ==
    crop_ret # None =>
        /\ IsEven(crop_ret.top) /\ IsEven(crop_ret.left) /\ IsEven(fovea)
        /\ crop_ret.gaze.p_x - crop_gaze.p_x
               = (IF IsEven(crop_gaze.p_x - fovea \div 2) THEN 0 ELSE 1)
        /\ crop_ret.gaze.p_y - crop_gaze.p_y
               = (IF IsEven(crop_gaze.p_y - fovea \div 2) THEN 0 ELSE 1)
        /\ \A i \in 0..2 : \A r \in DOMAIN fg_pic[i] :
               ~RowInSource(i, r) =>
                   \A c \in DOMAIN fg_pic[i][r] : fg_pic[i][r][c] = Sentinel

\* C12: in each of the three planes, every byte the crop wrote at (r, c) is
\* the source byte of that plane at (top/s + r, left/s + c), and a column
\* whose source column lies outside the source row is not written.
C12_BytesFromTheirSourcePlace ==
    crop_ret # None =>
        \A i \in 0..2 : \A r \in DOMAIN fg_pic[i] : \A c \in DOMAIN fg_pic[i][r] :
            /\ fg_pic[i][r][c] # Sentinel =>
                   fg_pic[i][r][c] = [row |-> SrcRowOf(i, r), col |-> SrcColOf(i, c)]
            /\ ~ColInSource(i, c) => fg_pic[i][r][c] = Sentinel

(***************************************************************************)
(* Claims about UserStudy                                                  *)
(***************************************************************************)
\* A step of run() in the Accept state.
IsAcceptRun == study_pc = "run" /\ state.tag = "Accept" /\ study_pc' = "event"

\* C13: every run of the Accept state removes exactly one delay (the last of
\* the list), and leaves the machine in Quit exactly when the list became
\* empty and in Pause otherwise; the popped and the queued delays always add
\* up to attempts x |delays|, and, unless a Quit event was seen, the state is
\* Quit only when all of them have been popped.
C13_AcceptPopsOneQuitWhenEmpty ==
    /\ [][IsAcceptRun =>
            /\ Len(delays) > 0
            /\ delays' = SubSeq(delays, 1, Len(delays) - 1)
            /\ popped' = Append(popped, delays[Len(delays)])
            /\ (state' = Quit) = (delays' = <<>>)
            /\ (state' = Pause) = (delays' # <<>>)]_vars
    /\ [](Len(popped) + Len(delays) = num_delays)
    /\ [](state = Quit /\ ~quit_seen =>
            Len(popped) = num_delays /\ delays = <<>> /\ num_delays > 0)

\* Two delays were queued, both were accepted, no Quit event was seen, and
\* the machine is in Quit.
C13_Witness ==
    /\ state = Quit /\ ~quit_seen /\ study_pc = "event"
    /\ num_delays = 2 /\ Len(popped) = 2 /\ delays = <<>>

\* The main loop is between two states' runs and no accepted preset is
\* waiting for its pop.
StudySettled == study_pc \in {"event", "done"} /\ state.tag # "Accept"

\* C14: whenever no Accept is pending, the CSV holds exactly one row per
\* popped delay, in order, each with the delay that was popped.
C14_OneRowPerPop ==
    StudySettled =>
        /\ Len(csv_rows) = Len(popped)
        /\ \A i \in DOMAIN csv_rows : csv_rows[i].delay = popped[i]

\* C15: next(state, event) is Accept{q} only when it is the state itself
\* or the state is Video{q} and the event Accept; it is Pause, from another
\* state, only from a Video state on a Pause event; Resume changes only the
\* Pause state; Accept, Pause and Resume outside these places, and None
\* everywhere, return the state unchanged.
C15_NextTable ==
    \A e \in Events :
        LET n == StudyNext(state, e)
        IN  /\ (n.tag = "Accept" /\ n # state) =>
                   e = EvAccept /\ state = Video(n.quality)
            /\ (e = EvAccept /\ state.tag = "Video") => n = Accept(state.quality)
            /\ (n = Pause /\ state # Pause) => e = EvPause /\ state.tag = "Video"
            /\ (e = EvPause /\ state.tag = "Video") => n = Pause
            /\ (e = EvResume /\ n # state) => state = Pause
            /\ (e = EvAccept /\ state.tag # "Video") => n = state
            /\ (e = EvPause /\ state.tag # "Video") => n = state
            /\ (e = EvResume /\ state # Pause) => n = state
            /\ e = EvNone => n = state

\* next() has just accepted preset 9, after one delay was already popped.
C15_Witness ==
    /\ state = Accept(9) /\ study_pc = "run" /\ Len(popped) = 1

\* A sample lies inside the source frame and names its macroblock.
InsideSource(g) ==
    /\ 0 <= g.p_x /\ g.p_x < ClipWidth
    /\ 0 <= g.p_y /\ g.p_y < ClipHeight
    /\ g.m_x = g.p_x \div MbSize
    /\ g.m_y = g.p_y \div MbSize

\* C16: every sample delivered by gaze_sample() or triggered_gaze_sample()
\* has 0 <= p_x < W and 0 <= p_y < H of the source frame, and m_x = p_x / 16,
\* m_y = p_y / 16 by integer division.
C16_DeliveredInsideSource ==
    /\ delivered # None => InsideSource(delivered.sample)
    /\ trig_ret # None => InsideSource(trig_ret.sample)

(***************************************************************************)
(* Claims about FvideoDummyServer under all its operations                 *)
(***************************************************************************)
\* Some encode_frame call so far had a gaze beyond the threshold: the
\* server has triggered.
HasTriggered == ~NoneExceededYet

\* An encode_frame call that encodes the black picture.
EncodesBlack ==
    /\ d_gazes' # d_gazes
    /\ d_call'.ret = "ok" /\ d_call'.pic = "black"

\* C17: once the dummy server has triggered, no later encode_frame call
\* encodes the black picture, whatever operations come in between.
C17_WhiteIsPermanent == [][HasTriggered => ~EncodesBlack]_vars

(***************************************************************************)
(* Claims about display_twostream_frame under every decoder outcome        *)
(***************************************************************************)
\* A display_frame() call on a tuple with at least one NAL.
IsDisplayCall == nals # NoFrames /\ nals' = NoFrames /\ nals # [fg |-> None, bg |-> None]

\* C18: display_frame returns normally for every decoder outcome on either
\* stream, and a call that decodes no new foreground or background frame
\* keeps the previous one.
C18_DisplayReturnsForEveryOutcome ==
    [][IsDisplayCall =>
            /\ ~client_panicked'
            /\ nals.bg = None => bg_frame' = bg_frame
            /\ nals.fg = None => fg_frame' = fg_frame]_vars

\* The patch on screen is where the last decoded foreground was cropped:
\* centred on its paired gaze.
PatchAtLastFgGaze ==
    /\ fg_rect # None /\ fg_frame # None
    /\ fg_frame.left = fg_rect.c_x - fovea \div 2
    /\ fg_frame.top = fg_rect.c_y - fovea \div 2

\* C19: a display_frame() call with a background NAL and no foreground NAL
\* redraws the foreground patch where the most recent foreground's paired
\* gaze put it.
C19_PatchStaysAtLastFgGaze ==
    [][(IsDisplayCall /\ nals.fg = None /\ ~client_panicked' /\ PatchAtLastFgGaze)
            => fg_rect' = fg_rect]_vars

(***************************************************************************)
(* Claims about the latency binary                                         *)
(***************************************************************************)
\* The read of the probe's measurement after a trial fails.
SerialReadFails == lat_pc = "run" /\ lat_pc' # "run" /\ serial_read' = "io_err"

\* C20: when the read of the probe's measurement fails after a trial, no
\* latency record is printed for that trial and the run goes on to the
\* remaining trials.
C20_SerialErrorSkipsTrial ==
    [][SerialReadFails => e2e_printed' = e2e_printed /\ lat_pc' = "trial"]_vars

(***************************************************************************)
(* Claims about last_gaze_sample                                           *)
(***************************************************************************)
\* C30: after an encode_frame() call that encoded a foreground,
\* last_gaze_sample is the gaze that foreground was cropped at (as handed to
\* the crop, or as the crop adjusted it), also when the encode happened only
\* because the frame advanced.
C30_LastGazeIsLastCropGaze ==
    (call.ret = "ok" /\ call.fg_encoded) =>
        last_gaze_sample \in {CallGaze, CropGaze(CallGaze)}

(***************************************************************************)
(* Claims about the memory crop_x264_pic touches                           *)
(***************************************************************************)
\* C29: for a gaze inside the frame, no byte copied into fg_pic was read from
\* outside [base, base + plane_size) of its source plane. (The destination
\* bytes written are those of fg_pic's rows: at most `size` bytes from the
\* start of each of its fovea / csp rows.)
C29_NoReadOutsidePlane ==
    (crop_ret # None /\ crop_gaze.p_x < SrcWidth /\ crop_gaze.p_y < SrcHeight) =>
        \A i \in 0..2 : \A r \in DOMAIN fg_pic[i] : \A c \in DOMAIN fg_pic[i][r] :
            fg_pic[i][r][c] # OutsidePlane

(***************************************************************************)
(* Claims about the gaze / NAL exchange of a pipeline run                  *)
(***************************************************************************)
\* The encoder has received a gaze and not yet sent its tuple; the display
\* loop has received a tuple and not yet sent its gaze.
EncoderOwes == IF enc_pc = "send_nal" THEN 1 ELSE 0
DisplayOwes == IF disp_pc \in {"gaze", "trig_wait"} THEN 1 ELSE 0

\* C25: gaze samples and tuples alternate: counting the messages in gaze_ch
\* and nal_ch, the tuple the encoder owes for a received gaze and the gaze the
\* display loop owes for a received tuple, there is never more than one; so
\* at most one message is in flight and every send finds room.
C25_OneMessageInFlight ==
    /\ Len(gaze_ch) + Len(nal_ch) + EncoderOwes + DisplayOwes <= 1
    /\ enc_pc = "send_nal" => Len(nal_ch) < NalCap
    /\ disp_pc \in {"prime", "first_gaze", "gaze", "trig_wait"} =>
           Len(gaze_ch) < GazeCap

\* In the user study the display loop has sent the gaze for the first tuple
\* and is displaying it while the second tuple is already in nal_ch.
C25_Witness ==
    /\ p_mode = "study" /\ disp_pc = "display"
    /\ nal_ch = <<2>> /\ gaze_ch = <<>>

(***************************************************************************)
(* Claims about stopping a video by keystroke                              *)
(***************************************************************************)
\* C26: a turn of the display loop that handles a key of the stop group
\* (Escape, P, C, B, a digit, or Return with the CSV row written) never ends
\* UserStudy::run with an error: cmd_tx.send(Stop) succeeds.
C26_StopByKeyIsClean ==
    [][\A key \in {"stop", "return"} :
            DispDisplayLoop(key, TRUE) => run_result' # "err"]_vars

(***************************************************************************)
(* Claims about the delay list and the Quit state of the user study        *)
(***************************************************************************)
\* C27: whenever run() executes the Video state the delay list is
\* non-empty.
C27_VideoRunsWithADelay ==
    (study_pc = "run" /\ state.tag = "Video") => delays # <<>>

\* C28: once the machine is in Quit (a Quit event was handled, or the last
\* delay was accepted) no step moves it out of Quit and no video, baseline
\* or calibration is started.
C28_QuitIsFinal ==
    [][state = Quit => (state' = Quit /\ study_pc' \in {"event", "done", "video", "err"}
                        /\ (study_pc' = "video" => study_pc = "video"))]_vars

(***************************************************************************)
(* Claims about the release of the tracker                                 *)
(***************************************************************************)
\* C21: however the process of a tracker session ends, by then the
\* recording has been stopped and after it the connection closed.
C21_TrackerReleasedOnExit ==
    proc = "ended" => release = <<"stop", "close">>


(***************************************************************************)
(* Claims about parse_y4m_header                                           *)
(***************************************************************************)
Returned == y4m_ret # None
ReturnedOk == Returned /\ "ok" \in DOMAIN y4m_ret

\* C22: parse_y4m_header returns Ok or a typed error for every input and
\* never panics, also for a header of the W/H/F form whose F field has no
\* ':' or has an empty or zero denominator.
C22_NeverPanics ==
    Returned => ("ok" \in DOMAIN y4m_ret \/ "err" \in DOMAIN y4m_ret)

\* The well-formed fields of the headers of the model, with the values they
\* stand for.
WellFormedWidths ==
    {[text |-> <<"W", "3", "8", "4", "0", " ">>, val |-> 3840],
     [text |-> <<"W", "1", "9", "2", "0", " ">>, val |-> 1920]}
WellFormedHeights ==
    {[text |-> <<"H", "2", "1", "6", "0", " ">>, val |-> 2160],
     [text |-> <<"H", "1", "0", "8", "0", " ">>, val |-> 1080]}
WellFormedFrames ==
    {[text |-> <<"F", "2", "4", ":", "1">>, num |-> 24, den |-> 1],
     [text |-> <<"F", "6", "0", ":", "1">>, num |-> 60, den |-> 1],
     [text |-> <<"F", "2", "4", "0", "0", "0", ":", "1", "0", "0", "1">>, num |-> 24000, den |-> 1001],
     [text |-> <<"F", "4", "8", ":", "2">>, num |-> 48, den |-> 2]}

\* C23: for every header 'YUV4MPEG2 W<w> H<h> F<num>:<den> ...' the result
\* is Ok((w, h, num/den)): (3840, 2160, 24.0) for 'W3840 H2160 F24:1', 60.0
\* for 'F60:1' and (1920, 1080, 24000/1001) for 'W1920 H1080 F24000:1001'.
C23_WellFormedHeaderParses ==
    Returned =>
        \A w \in WellFormedWidths, h \in WellFormedHeights, f \in WellFormedFrames,
           r \in HdrRests :
            hdr = Magic \o <<" ">> \o w.text \o h.text \o f.text \o r =>
                /\ ReturnedOk
                /\ y4m_ret.ok.width = w.val
                /\ y4m_ret.ok.height = h.val
                /\ "num" \in DOMAIN y4m_ret.ok.fps
                /\ y4m_ret.ok.fps.num * f.den = f.num * y4m_ret.ok.fps.den

C23_Witness ==
    /\ hdr = <<"Y", "U", "V", "4", "M", "P", "E", "G", "2", " ", "W", "1", "9", "2", "0", " ", "H", "1", "0", "8", "0", " ", "F", "2", "4", "0", "0", "0", ":", "1", "0", "0", "1", " ", "I", "p">> \o <<"\n">>
    /\ ReturnedOk
    /\ y4m_ret.ok = [width |-> 1920, height |-> 1080, fps |-> [num |-> 24000, den |-> 1001]]


(***************************************************************************)
(* Claims about compute_alpha                                              *)
(***************************************************************************)
AlphaDone == fg_width > 0 /\ alpha_j = fg_width
AlphaAt(i, j) == alpha_blend[j * fg_width + i + 1]

\* C24: the mask of compute_alpha(F) has exactly F*F entries, every entry
\* equals the entries at its horizontal and vertical mirror positions, and
\* no entry exceeds the entry at the centre.
C24_AlphaMaskSymmetric ==
    AlphaDone =>
        /\ Len(alpha_blend) = fg_width * fg_width
        /\ \A i, j \in 0..(fg_width - 1) :
            /\ AlphaAt(i, j) = AlphaAt(fg_width - 1 - i, j)
            /\ AlphaAt(i, j) = AlphaAt(i, fg_width - 1 - j)
            /\ AlphaAt(i, j) <= AlphaAt(fg_width \div 2, fg_width \div 2)

====
